---- MODULE Spec2Model ----
(***************************************************************************)
(* Booking lifecycle of the BookingManager contract                        *)
(* (contracts-main/test/PropertySystem.js, the Solidity source that        *)
(* follows the hardhat tests): creation with conflict check and fee split, *)
(* check-in window, missed check-in, dual-party dispute resolution,        *)
(* escalation, admin resolution and cancellation, with the EURC balances   *)
(* the contract moves.  A transaction that hits a failing require reverts: *)
(* it changes no contract state and is recorded only in its receipt.       *)
(*                                                                         *)
(* Second part: the backend EventListener                                  *)
(* (contracts-main/backend/src/services/event-listener.js) that polls the  *)
(* ledger for events and projects bookings into Strapi, as asynchronous    *)
(* passes that interleave at their await points.                           *)
(*                                                                         *)
(* Third part: the projection the handlers keep of each booking (record    *)
(* status, payout callback), driven by the events of the contract's        *)
(* transactions.  Fourth part: the CryptoPaymentService monitor            *)
(* (contracts-main/backend/src/services/crypto-payment-service.js).        *)
(* Fifth part: the order in which one poll cycle applies what its two      *)
(* event queries returned.                                                 *)
(***************************************************************************)
EXTENDS Integers, Naturals, Sequences, FiniteSets, TLC

\* ------------------------------------------------------------------ bounds
MaxBookings == 2
MaxDays == 4
MaxSkew == 1
GuestFunds == 1000
MaxBlocks == 3
MaxPolls == 1
MaxCopies == 2
MaxInFlight == 2
MaxPayments == 1
MaxChecks == 2
MaxHeight == 2
MaxTxIndex == 1
MaxFetched == 2

\* ------------------------------------------------------- program constants
ONE_DAY == 86400
CHECK_IN_WINDOW == 86400
DISPUTE_RESOLUTION_WINDOW == 86400
platformFeePercentage == 30

\* ------------------------------------------------------------ input domains
HalfDay == ONE_DAY \div 2
ZeroAddress == "0x0"
Deployer == "deployer"
Host == "host"
Guest == "guest"
Treasury == "treasury"
Escrow == "bookingManager"
\* Ownable(_msgSender()) in the constructor: the deployer owns the contract
owner == Deployer
Senders == {Deployer, Host, Guest}
Holders == {Host, Guest, Treasury, Escrow}
PropertyIds == {"P1", "P2", "P0"}
BookingIds == 1..MaxBookings
CallIds == 1..(MaxBookings + 1)
CheckInDates == {2 * ONE_DAY, 3 * ONE_DAY}
Stays == {0, HalfDay, ONE_DAY, ONE_DAY + HalfDay}
Amounts == {333}
Percentages == {0, 33, 100, 101}
LastInstant == (MaxDays + 1) * ONE_DAY + MaxSkew

\* tx is the receipt of the latest transaction; pre and preBalances are the
\* bookings mapping and the EURC balances as they stood before it.
VARIABLES now, bookings, bookingIdCounter, propertyBookings,
          guestBookings, balances, tx, pre, preBalances

contractVars == <<now, bookings, bookingIdCounter, propertyBookings,
                  guestBookings, balances, tx, pre, preBalances>>

\* The EventListener: the ledger height, the listener's fields, the state
\* file, the Strapi booking collection, the asynchronous passes in flight,
\* what the latest step of a pass did, the cursor the process started from
\* and the identities cleared from processedEvents so far (step, resumedAt,
\* forgotten: bookkeeping only).
VARIABLES blockNumber, lastProcessedBlock, stateFile, isRunning,
          processedEvents, processingEvents, strapiBookings, tasks,
          step, resumedAt, forgotten

listenerVars == <<blockNumber, lastProcessedBlock, stateFile, isRunning,
                  processedEvents, processingEvents, strapiBookings, tasks,
                  step, resumedAt, forgotten>>

\* The projection of the bookings: the status of each booking's Strapi
\* record ("" while it has none), the bookings onBookingCompleted was called
\* for, and whether the events of the latest transaction have been applied
\* and for whom reconcile has run since (sync: bookkeeping only).
VARIABLES strapiRecords, payoutCallbacks, sync

syncVars == <<strapiRecords, payoutCallbacks, sync>>

NoSync == [applied |-> FALSE, reconciled |-> ZeroAddress]

\* The CryptoPaymentService: its payment sessions, the processing markers,
\* the id counter, the monitoring flag, the timer callbacks in flight and
\* how often onEURCPaymentConfirmed was called per session (confirmedCalls:
\* bookkeeping only).
VARIABLES pendingPayments, processingPayments, paymentIdCounter,
          isMonitoring, checks, confirmedCalls

paymentVars == <<pendingPayments, processingPayments, paymentIdCounter,
                 isMonitoring, checks, confirmedCalls>>

\* One poll cycle: the events still to apply, in the order getAllEvents
\* returned them, what the two queries had returned, and the events whose
\* handler the cycle has invoked so far (fetched, invoked: bookkeeping only).
VARIABLES events, fetched, invoked

orderVars == <<events, fetched, invoked>>

vars == <<contractVars, listenerVars, syncVars, paymentVars, orderVars>>

\* what a transaction of the contract leaves alone
offLedgerVars ==
    <<listenerVars, strapiRecords, payoutCallbacks, paymentVars, orderVars>>

\* what a step of the listener's passes leaves alone
offListenerVars == <<contractVars, syncVars, paymentVars, orderVars>>

PaymentIds == 1..MaxPayments
CheckIds == 1..MaxChecks

\* a payment id the Map has no entry for
NoPayment == [status |-> "", blockNumber |-> FALSE, key |-> ""]

\* a timer callback that has not fired yet
WaitingCheck == [pc |-> "waiting", at |-> 0, late |-> {}, old |-> {}]

\* The block the contracts were deployed in; every later block holds one
\* BookingCreated event.
DeploymentBlock == 1
EventBlocks == (DeploymentBlock + 1)..MaxBlocks

Historical == <<"historical", 0>>
Manual == <<"manual", 0>>
Reconcile == <<"reconcile", 0>>
Polls == {<<"poll", i>> : i \in 1..MaxPolls}
TaskIds == {Historical, Manual, Reconcile} \cup Polls
Kind(t) == t[1]

\* A pass that is not running.
IdleTask ==
    [pc |-> "idle", from |-> 0, to |-> 0, queue |-> <<>>,
     failed |-> {}, queryFailed |-> FALSE, reapply |-> FALSE,
     unmarked |-> FALSE]

NoStep ==
    [task |-> <<"", 0>>, op |-> "", event |-> 0, ok |-> TRUE,
     committed |-> FALSE, started |-> 0, skipped |-> {},
     advanced |-> FALSE, failed |-> {}, queryFailed |-> FALSE, was |-> 0,
     reapply |-> FALSE, rest |-> <<>>]

\* The value a mapping(uint256 => Booking) slot holds before it is written.
EmptyBooking ==
    [bookingId |-> 0, propertyId |-> "", guest |-> ZeroAddress,
     host |-> ZeroAddress, checkInDate |-> 0, checkOutDate |-> 0,
     totalAmount |-> 0, platformFee |-> 0, hostAmount |-> 0,
     status |-> "Active", checkInWindowStart |-> 0, checkInDeadline |-> 0,
     disputeDeadline |-> 0, isCheckInComplete |-> FALSE,
     isResolvedByHost |-> FALSE, isResolvedByGuest |-> FALSE,
     disputeReason |-> "", bookingURI |-> "", paymentReference |-> "",
     paidOffChain |-> FALSE]

BookingStatus ==
    {"Active", "CheckInReady", "CheckedIn", "Completed", "Disputed",
     "Cancelled", "Refunded", "EscalatedToAdmin"}

\* propertyMarketplace.properties(id): (.., owner, .., isActive, ..).
\* P1 is listed and active, P2 is listed but was deactivated by its owner
\* (updateProperty), any other id is unset.
properties(p) ==
    IF p = "P1" THEN [owner |-> Host, isActive |-> TRUE]
    ELSE IF p = "P2" THEN [owner |-> Host, isActive |-> FALSE]
    ELSE [owner |-> ZeroAddress, isActive |-> FALSE]

NoTx == [fn |-> "", sender |-> ZeroAddress, id |-> 0, ok |-> TRUE,
         reason |-> "", checkIn |-> 0, checkOut |-> 0, pct |-> 0]

Receipt(fn, sender, id, reason, cin, cout, pct) ==
    [fn |-> fn, sender |-> sender, id |-> id, ok |-> (reason = ""),
     reason |-> reason, checkIn |-> cin, checkOut |-> cout, pct |-> pct]

\* bookings[_bookingId] for any uint256 key
BookingAt(id) == IF id \in BookingIds THEN bookings[id] ELSE EmptyBooking

Init ==
    /\ now = ONE_DAY
    /\ bookings = [i \in BookingIds |-> EmptyBooking]
    /\ bookingIdCounter = 0
    /\ propertyBookings = [p \in PropertyIds |-> <<>>]
    /\ guestBookings = [a \in Senders |-> <<>>]
    /\ balances = [a \in Holders |->
                       IF a \in {Guest, Host} THEN GuestFunds ELSE 0]
    /\ tx = NoTx
    /\ pre = [i \in BookingIds |-> EmptyBooking]
    /\ preBalances = balances
    /\ blockNumber = DeploymentBlock
    /\ lastProcessedBlock = 0
    /\ stateFile = 0
    /\ isRunning = FALSE
    /\ processedEvents = {}
    /\ processingEvents = {}
    /\ strapiBookings = [b \in EventBlocks |-> 0]
    /\ tasks = [t \in TaskIds |-> IdleTask]
    /\ step = NoStep
    /\ resumedAt = 0
    /\ forgotten = {}
    /\ strapiRecords = [i \in BookingIds |-> ""]
    /\ payoutCallbacks = {}
    /\ sync = NoSync
    /\ pendingPayments = [p \in PaymentIds |-> NoPayment]
    /\ processingPayments = {}
    /\ paymentIdCounter = 0
    /\ isMonitoring = FALSE
    /\ checks = [i \in CheckIds |-> WaitingCheck]
    /\ confirmedCalls = [p \in PaymentIds |-> 0]
    /\ events = <<>>
    /\ fetched = <<>>
    /\ invoked = <<>>

\* ------------------------------------------------------------------- views
\* hasBookingConflict: scan the property's booking ids, skip Cancelled and
\* Refunded, report the first overlap.
RECURSIVE ConflictFrom(_, _, _, _)
ConflictFrom(ids, i, cin, cout) ==
    IF i > Len(ids) THEN FALSE
    ELSE LET existingBooking == bookings[ids[i]] IN
         IF existingBooking.status \in {"Cancelled", "Refunded"}
         THEN ConflictFrom(ids, i + 1, cin, cout)
         ELSE IF cin < existingBooking.checkOutDate
                 /\ cout > existingBooking.checkInDate
              THEN TRUE
              ELSE ConflictFrom(ids, i + 1, cin, cout)

\* the overlap test with the end points included
hasBookingConflictInclusive(p, cin, cout) ==
    \E k \in 1..Len(propertyBookings[p]) :
        LET existingBooking == bookings[propertyBookings[p][k]] IN
        /\ existingBooking.status \notin {"Cancelled", "Refunded"}
        /\ cin <= existingBooking.checkOutDate
        /\ cout >= existingBooking.checkInDate

\* the overlap test with checkInDate written on both sides
hasBookingConflictSameField(p, cin, cout) ==
    \E k \in 1..Len(propertyBookings[p]) :
        LET existingBooking == bookings[propertyBookings[p][k]] IN
        /\ existingBooking.status \notin {"Cancelled", "Refunded"}
        /\ cin < existingBooking.checkInDate
        /\ cout > existingBooking.checkInDate

hasBookingConflict(p, cin, cout) ==
    ConflictFrom(propertyBookings[p], 1, cin, cout)

\* the fee taken as a percentage instead of per mille
PlatformFeePerCent(total) == (total * platformFeePercentage) \div 100

PlatformFeeOf(total) == (total * platformFeePercentage) \div 1000

\* IERC20 transfer of amt from one holder to another
Transfer(bal, from, to, amt) ==
    [a \in Holders |->
        bal[a] - (IF a = from THEN amt ELSE 0) + (IF a = to THEN amt ELSE 0)]

InsufficientBalance == "ERC20: transfer amount exceeds balance"

\* ------------------------------------------------------- booking creation
\* createBooking without the own-property require
createBookingRevertAnyGuest(sender, p, cin, cout, amt) ==
    LET host == properties(p).owner IN
    IF ~properties(p).isActive THEN "Property not active"
    ELSE IF host = ZeroAddress THEN "Property does not exist"
    ELSE IF ~(cin > now) THEN "Check-in must be in the future"
    ELSE IF ~(cout > cin) THEN "Check-out must be after check-in"
    ELSE IF hasBookingConflict(p, cin, cout)
         THEN "Booking dates conflict with existing booking"
    ELSE IF ~((cout - cin) \div ONE_DAY > 0)
         THEN "Booking must be at least 1 night"
    ELSE IF sender \notin Holders \/ balances[sender] < amt
         THEN InsufficientBalance
    ELSE ""

\* The require chain of createBooking, in source order; "" when none fails.
createBookingRevert(sender, p, cin, cout, amt) ==
    LET host == properties(p).owner IN
    IF ~properties(p).isActive THEN "Property not active"
    ELSE IF host = ZeroAddress THEN "Property does not exist"
    ELSE IF host = sender THEN "Cannot book own property"
    ELSE IF ~(cin > now) THEN "Check-in must be in the future"
    ELSE IF ~(cout > cin) THEN "Check-out must be after check-in"
    ELSE IF hasBookingConflict(p, cin, cout)
         THEN "Booking dates conflict with existing booking"
    ELSE IF ~((cout - cin) \div ONE_DAY > 0)
         THEN "Booking must be at least 1 night"
    ELSE IF sender \notin Holders \/ balances[sender] < amt
         THEN InsufficientBalance
    ELSE ""

createBookingPaidRevert(sender, p, cin, cout, amt) ==
    LET host == properties(p).owner IN
    IF ~properties(p).isActive THEN "Property not active"
    ELSE IF host = ZeroAddress THEN "Property does not exist"
    ELSE IF ~(cin > now) THEN "Check-in must be in the future"
    ELSE IF ~(cout > cin) THEN "Check-out must be after check-in"
    ELSE IF hasBookingConflict(p, cin, cout)
         THEN "Booking dates conflict with existing booking"
    ELSE IF ~((cout - cin) \div ONE_DAY > 0)
         THEN "Booking must be at least 1 night"
    ELSE ""

\* a booking whose hostAmount is the whole payment
NewBookingHostGetsTotal(id, p, sender, cin, cout, amt, ref, offChain) ==
    [bookingId |-> id, propertyId |-> p, guest |-> sender,
     host |-> properties(p).owner, checkInDate |-> cin,
     checkOutDate |-> cout, totalAmount |-> amt,
     platformFee |-> PlatformFeeOf(amt),
     hostAmount |-> amt,
     status |-> "Active", checkInWindowStart |-> 0, checkInDeadline |-> 0,
     disputeDeadline |-> 0, isCheckInComplete |-> FALSE,
     isResolvedByHost |-> FALSE, isResolvedByGuest |-> FALSE,
     disputeReason |-> "", bookingURI |-> "ipfs://booking",
     paymentReference |-> ref, paidOffChain |-> offChain]

NewBooking(id, p, sender, cin, cout, amt, ref, offChain) ==
    [bookingId |-> id, propertyId |-> p, guest |-> sender,
     host |-> properties(p).owner, checkInDate |-> cin,
     checkOutDate |-> cout, totalAmount |-> amt,
     platformFee |-> PlatformFeeOf(amt),
     hostAmount |-> amt - PlatformFeeOf(amt),
     status |-> "Active", checkInWindowStart |-> 0, checkInDeadline |-> 0,
     disputeDeadline |-> 0, isCheckInComplete |-> FALSE,
     isResolvedByHost |-> FALSE, isResolvedByGuest |-> FALSE,
     disputeReason |-> "", bookingURI |-> "ipfs://booking",
     paymentReference |-> ref, paidOffChain |-> offChain]

createBooking(sender, p, cin, cout, amt) ==
    /\ bookingIdCounter < MaxBookings
    /\ createBookingRevert(sender, p, cin, cout, amt) = ""
    /\ balances' = Transfer(balances, sender, Escrow, amt)
    /\ bookingIdCounter' = bookingIdCounter + 1
    /\ bookings' = [bookings EXCEPT ![bookingIdCounter + 1] =
           NewBooking(bookingIdCounter + 1, p, sender, cin, cout, amt,
                      "", FALSE)]
    /\ propertyBookings' =
           [propertyBookings EXCEPT ![p] = Append(@, bookingIdCounter + 1)]
    /\ guestBookings' =
           [guestBookings EXCEPT ![sender] = Append(@, bookingIdCounter + 1)]
    /\ tx' = Receipt("createBooking", sender, bookingIdCounter + 1, "",
                     cin, cout, 0)
    /\ pre' = bookings
    /\ preBalances' = balances
    /\ sync' = NoSync
    /\ UNCHANGED offLedgerVars
    /\ UNCHANGED now

createBookingPaid(sender, p, cin, cout, amt) ==
    /\ bookingIdCounter < MaxBookings
    /\ createBookingPaidRevert(sender, p, cin, cout, amt) = ""
    /\ bookingIdCounter' = bookingIdCounter + 1
    /\ bookings' = [bookings EXCEPT ![bookingIdCounter + 1] =
           NewBooking(bookingIdCounter + 1, p, sender, cin, cout, amt,
                      "revolut-order", TRUE)]
    /\ propertyBookings' =
           [propertyBookings EXCEPT ![p] = Append(@, bookingIdCounter + 1)]
    /\ guestBookings' =
           [guestBookings EXCEPT ![sender] = Append(@, bookingIdCounter + 1)]
    /\ tx' = Receipt("createBookingPaid", sender, bookingIdCounter + 1, "",
                     cin, cout, 0)
    /\ pre' = bookings
    /\ preBalances' = balances
    /\ sync' = NoSync
    /\ UNCHANGED offLedgerVars
    /\ UNCHANGED <<now, balances>>

\* --------------------------------------------------------- check-in window
\* the window opens only strictly after the check-in date
triggerCheckInWindowRevertAfter(id) ==
    LET booking == BookingAt(id) IN
    IF booking.bookingId # id THEN "Booking does not exist"
    ELSE IF booking.status # "Active" THEN "Booking not active"
    ELSE IF ~(now > booking.checkInDate) THEN "Check-in date not reached"
    ELSE IF booking.checkInWindowStart # 0
         THEN "Check-in window already triggered"
    ELSE ""

triggerCheckInWindowRevert(id) ==
    LET booking == BookingAt(id) IN
    IF booking.bookingId # id THEN "Booking does not exist"
    ELSE IF booking.status # "Active" THEN "Booking not active"
    ELSE IF ~(now >= booking.checkInDate) THEN "Check-in date not reached"
    ELSE IF booking.checkInWindowStart # 0
         THEN "Check-in window already triggered"
    ELSE ""

triggerCheckInWindow(sender, id) ==
    /\ triggerCheckInWindowRevert(id) = ""
    /\ bookings' = [bookings EXCEPT ![id] =
           [@ EXCEPT !.checkInWindowStart = now,
                     !.checkInDeadline = now + CHECK_IN_WINDOW,
                     !.status = "CheckInReady"]]
    /\ tx' = Receipt("triggerCheckInWindow", sender, id, "", 0, 0, 0)
    /\ pre' = bookings
    /\ preBalances' = balances
    /\ sync' = NoSync
    /\ UNCHANGED offLedgerVars
    /\ UNCHANGED <<now, bookingIdCounter, propertyBookings,
                   guestBookings, balances>>

\* the deadline instant itself is already too late
checkInRevertBeforeDeadline(sender, id) ==
    LET booking == BookingAt(id) IN
    IF booking.guest # sender THEN "Not the guest"
    ELSE IF booking.status # "CheckInReady" THEN "Not ready for check-in"
    ELSE IF ~(now < booking.checkInDeadline) THEN "Check-in window expired"
    ELSE ""

checkInRevert(sender, id) ==
    LET booking == BookingAt(id) IN
    IF booking.guest # sender THEN "Not the guest"
    ELSE IF booking.status # "CheckInReady" THEN "Not ready for check-in"
    ELSE IF ~(now <= booking.checkInDeadline) THEN "Check-in window expired"
    ELSE ""

checkIn(sender, id) ==
    /\ checkInRevert(sender, id) = ""
    /\ bookings' = [bookings EXCEPT ![id] =
           [@ EXCEPT !.status = "CheckedIn", !.isCheckInComplete = TRUE]]
    /\ tx' = Receipt("checkIn", sender, id, "", 0, 0, 0)
    /\ pre' = bookings
    /\ preBalances' = balances
    /\ sync' = NoSync
    /\ UNCHANGED offLedgerVars
    /\ UNCHANGED <<now, bookingIdCounter, propertyBookings,
                   guestBookings, balances>>

\* a check-in is already missed at the deadline instant
processMissedCheckInRevertAtDeadline(id) ==
    LET booking == BookingAt(id) IN
    IF booking.status # "CheckInReady" THEN "Not in check-in window"
    ELSE IF ~(now >= booking.checkInDeadline)
         THEN "Check-in window not expired"
    ELSE ""

processMissedCheckInRevert(id) ==
    LET booking == BookingAt(id) IN
    IF booking.status # "CheckInReady" THEN "Not in check-in window"
    ELSE IF ~(now > booking.checkInDeadline)
         THEN "Check-in window not expired"
    ELSE ""

processMissedCheckIn(sender, id) ==
    /\ processMissedCheckInRevert(id) = ""
    /\ bookings' = [bookings EXCEPT ![id] =
           [@ EXCEPT !.status = "Disputed",
                     !.disputeDeadline = now + DISPUTE_RESOLUTION_WINDOW,
                     !.disputeReason = "Missed check-in"]]
    /\ tx' = Receipt("processMissedCheckIn", sender, id, "", 0, 0, 0)
    /\ pre' = bookings
    /\ preBalances' = balances
    /\ sync' = NoSync
    /\ UNCHANGED offLedgerVars
    /\ UNCHANGED <<now, bookingIdCounter, propertyBookings,
                   guestBookings, balances>>

\* ------------------------------------------------------ dispute resolution
\* _completeBooking: status = Completed; on the EURC path the fee goes to the
\* treasury and hostAmount to the host.
\* a completion that forgets to write the status
CompletedBookingKeepsStatus(booking) == booking

\* a dual-consent completion that hands the booking to the admin instead
CompletedBookingAwaitsAdmin(booking) ==
    [booking EXCEPT !.status = "EscalatedToAdmin"]

CompletedBooking(booking) == [booking EXCEPT !.status = "Completed"]

\* completion paying out of escrow whatever the settlement path
CompletionBalancesAlwaysPays(booking) ==
    Transfer(Transfer(balances, Escrow, Treasury, booking.platformFee),
             Escrow, booking.host, booking.hostAmount)

CompletionBalances(booking) ==
    IF booking.paidOffChain THEN balances
    ELSE Transfer(Transfer(balances, Escrow, Treasury, booking.platformFee),
                  Escrow, booking.host, booking.hostAmount)

\* hostResolveDispute without the caller check
hostResolveDisputeRevertAnyone(sender, id) ==
    LET booking == BookingAt(id) IN
    IF booking.status # "Disputed" THEN "Not in dispute"
    ELSE IF ~(now <= booking.disputeDeadline) THEN "Dispute window expired"
    ELSE ""

hostResolveDisputeRevert(sender, id) ==
    LET booking == BookingAt(id) IN
    IF booking.host # sender THEN "Not the property owner"
    ELSE IF booking.status # "Disputed" THEN "Not in dispute"
    ELSE IF ~(now <= booking.disputeDeadline) THEN "Dispute window expired"
    ELSE IF booking.isResolvedByGuest /\ ~booking.paidOffChain
            /\ balances[Escrow] < booking.totalAmount
         THEN InsufficientBalance
    ELSE ""

hostResolveDispute(sender, id) ==
    /\ hostResolveDisputeRevert(sender, id) = ""
    /\ LET resolved == [bookings[id] EXCEPT !.isResolvedByHost = TRUE] IN
       IF resolved.isResolvedByGuest
       THEN /\ bookings' = [bookings EXCEPT ![id] = CompletedBooking(resolved)]
            /\ balances' = CompletionBalances(resolved)
       ELSE /\ bookings' = [bookings EXCEPT ![id] = resolved]
            /\ balances' = balances
    /\ tx' = Receipt("hostResolveDispute", sender, id, "", 0, 0, 0)
    /\ pre' = bookings
    /\ preBalances' = balances
    /\ sync' = NoSync
    /\ UNCHANGED offLedgerVars
    /\ UNCHANGED <<now, bookingIdCounter, propertyBookings, guestBookings>>

\* the guest's vote closed at the deadline instant
guestResolveDisputeRevertBeforeDeadline(sender, id) ==
    LET booking == BookingAt(id) IN
    IF booking.guest # sender THEN "Not the guest"
    ELSE IF booking.status # "Disputed" THEN "Not in dispute"
    ELSE IF ~(now < booking.disputeDeadline) THEN "Dispute window expired"
    ELSE IF booking.isResolvedByHost /\ ~booking.paidOffChain
            /\ balances[Escrow] < booking.totalAmount
         THEN InsufficientBalance
    ELSE ""

guestResolveDisputeRevert(sender, id) ==
    LET booking == BookingAt(id) IN
    IF booking.guest # sender THEN "Not the guest"
    ELSE IF booking.status # "Disputed" THEN "Not in dispute"
    ELSE IF ~(now <= booking.disputeDeadline) THEN "Dispute window expired"
    ELSE IF booking.isResolvedByHost /\ ~booking.paidOffChain
            /\ balances[Escrow] < booking.totalAmount
         THEN InsufficientBalance
    ELSE ""

guestResolveDispute(sender, id) ==
    /\ guestResolveDisputeRevert(sender, id) = ""
    /\ LET resolved == [bookings[id] EXCEPT !.isResolvedByGuest = TRUE] IN
       IF resolved.isResolvedByHost
       THEN /\ bookings' = [bookings EXCEPT ![id] = CompletedBooking(resolved)]
            /\ balances' = CompletionBalances(resolved)
       ELSE /\ bookings' = [bookings EXCEPT ![id] = resolved]
            /\ balances' = balances
    /\ tx' = Receipt("guestResolveDispute", sender, id, "", 0, 0, 0)
    /\ pre' = bookings
    /\ preBalances' = balances
    /\ sync' = NoSync
    /\ UNCHANGED offLedgerVars
    /\ UNCHANGED <<now, bookingIdCounter, propertyBookings, guestBookings>>

\* the already-resolved guard written with || instead of &&
escalateDisputeRevertEither(id) ==
    LET booking == BookingAt(id) IN
    IF booking.status # "Disputed" THEN "Not in dispute"
    ELSE IF ~(now > booking.disputeDeadline)
         THEN "Dispute resolution window not expired"
    ELSE IF booking.isResolvedByHost \/ booking.isResolvedByGuest
         THEN "Dispute already resolved"
    ELSE ""

\* an escalation that clears the parties' votes
EscalatedBookingClearsVotes(booking) ==
    [booking EXCEPT !.status = "EscalatedToAdmin",
                    !.isResolvedByHost = FALSE, !.isResolvedByGuest = FALSE]

\* escalation wiping the dispute deadline
EscalatedBookingClearsDeadline(booking) ==
    [booking EXCEPT !.status = "EscalatedToAdmin", !.disputeDeadline = 0]

EscalatedBooking(booking) == [booking EXCEPT !.status = "EscalatedToAdmin"]

escalateDisputeRevert(id) ==
    LET booking == BookingAt(id) IN
    IF booking.status # "Disputed" THEN "Not in dispute"
    ELSE IF ~(now > booking.disputeDeadline)
         THEN "Dispute resolution window not expired"
    ELSE IF booking.isResolvedByHost /\ booking.isResolvedByGuest
         THEN "Dispute already resolved"
    ELSE ""

escalateDispute(sender, id) ==
    /\ escalateDisputeRevert(id) = ""
    /\ bookings' = [bookings EXCEPT ![id] = EscalatedBooking(@)]
    /\ tx' = Receipt("escalateDispute", sender, id, "", 0, 0, 0)
    /\ pre' = bookings
    /\ preBalances' = balances
    /\ sync' = NoSync
    /\ UNCHANGED offLedgerVars
    /\ UNCHANGED <<now, bookingIdCounter, propertyBookings, guestBookings,
                   balances>>

\* ------------------------------------------------------- admin resolution
\* the split taken from totalAmount instead of hostAmount
GuestRefundOfTotal(booking, pct) == (booking.totalAmount * pct) \div 100

GuestRefundOf(booking, pct) == (booking.hostAmount * pct) \div 100

\* every admin resolution ends Completed
AdminOutcomeAlwaysCompleted(pct) == "Completed"

AdminOutcome(pct) == IF pct = 100 THEN "Refunded" ELSE "Completed"

\* adminResolveDispute without onlyOwner
adminResolveDisputeRevertNoOwner(sender, id, pct) ==
    LET booking == BookingAt(id) IN
    IF booking.status # "EscalatedToAdmin" THEN "Not escalated to admin"
    ELSE IF ~(pct <= 100) THEN "Invalid percentage"
    ELSE ""

\* adminResolveDispute without the status check
adminResolveDisputeRevertAnyStatus(sender, id, pct) ==
    LET booking == BookingAt(id) IN
    IF sender # owner THEN "OwnableUnauthorizedAccount"
    ELSE IF booking.bookingId # id THEN "Not escalated to admin"
    ELSE IF ~(pct <= 100) THEN "Invalid percentage"
    ELSE IF ~booking.paidOffChain /\ balances[Escrow] < booking.totalAmount
         THEN InsufficientBalance
    ELSE ""

adminResolveDisputeRevert(sender, id, pct) ==
    LET booking == BookingAt(id) IN
    IF sender # owner THEN "OwnableUnauthorizedAccount"
    ELSE IF booking.status # "EscalatedToAdmin" THEN "Not escalated to admin"
    ELSE IF ~(pct <= 100) THEN "Invalid percentage"
    ELSE IF ~booking.paidOffChain /\ balances[Escrow] < booking.totalAmount
         THEN InsufficientBalance
    ELSE ""

adminResolveDispute(sender, id, pct) ==
    /\ adminResolveDisputeRevert(sender, id, pct) = ""
    /\ LET booking == bookings[id]
           guestRefund == GuestRefundOf(booking, pct)
           hostPayout == booking.hostAmount - guestRefund
       IN  /\ balances' =
                  IF booking.paidOffChain THEN balances
                  ELSE Transfer(
                         Transfer(
                           Transfer(balances, Escrow, booking.guest,
                                    guestRefund),
                           Escrow, booking.host, hostPayout),
                         Escrow, Treasury, booking.platformFee)
           /\ bookings' = [bookings EXCEPT ![id] =
                  [@ EXCEPT !.status = AdminOutcome(pct)]]
    /\ tx' = Receipt("adminResolveDispute", sender, id, "", 0, 0, pct)
    /\ pre' = bookings
    /\ preBalances' = balances
    /\ sync' = NoSync
    /\ UNCHANGED offLedgerVars
    /\ UNCHANGED <<now, bookingIdCounter, propertyBookings, guestBookings>>

\* ------------------------------------------------------------ cancellation
\* cancelling is still allowed at the check-in instant
cancelBookingRevertAtCheckIn(sender, id) ==
    LET booking == BookingAt(id) IN
    IF booking.guest # sender THEN "Not the guest"
    ELSE IF booking.status # "Active" THEN "Cannot cancel booking"
    ELSE IF ~(now <= booking.checkInDate) THEN "Past check-in date"
    ELSE IF ~booking.paidOffChain /\ balances[Escrow] < booking.totalAmount
         THEN InsufficientBalance
    ELSE ""

cancelBookingRevert(sender, id) ==
    LET booking == BookingAt(id) IN
    IF booking.guest # sender THEN "Not the guest"
    ELSE IF booking.status # "Active" THEN "Cannot cancel booking"
    ELSE IF ~(now < booking.checkInDate) THEN "Past check-in date"
    ELSE IF ~booking.paidOffChain /\ balances[Escrow] < booking.totalAmount
         THEN InsufficientBalance
    ELSE ""

cancelBooking(sender, id) ==
    /\ cancelBookingRevert(sender, id) = ""
    /\ LET booking == bookings[id] IN
       /\ bookings' = [bookings EXCEPT ![id] =
              [@ EXCEPT !.status = "Cancelled"]]
       /\ balances' =
              IF booking.paidOffChain THEN balances
              ELSE Transfer(Transfer(balances, Escrow, booking.guest,
                                     booking.hostAmount),
                            Escrow, Treasury, booking.platformFee)
    /\ tx' = Receipt("cancelBooking", sender, id, "", 0, 0, 0)
    /\ pre' = bookings
    /\ preBalances' = balances
    /\ sync' = NoSync
    /\ UNCHANGED offLedgerVars
    /\ UNCHANGED <<now, bookingIdCounter, propertyBookings, guestBookings>>

\* ------------------------------------------------------------------- clock
\* block.timestamp moves forward between transactions, by a second or a day.
Tick(d) ==
    /\ now + d <= LastInstant
    /\ d = 1 => (now % ONE_DAY) < MaxSkew
    /\ now' = now + d
    /\ tx' = NoTx
    /\ pre' = bookings
    /\ preBalances' = balances
    /\ sync' = NoSync
    /\ UNCHANGED offLedgerVars
    /\ UNCHANGED <<bookings, bookingIdCounter, propertyBookings,
                   guestBookings, balances>>

\* ----------------------------------------------------------- specification
Next ==
    \/ \E s \in {Guest, Host}, p \in PropertyIds, cin \in CheckInDates,
          st \in Stays, amt \in Amounts :
          createBooking(s, p, cin, cin + st, amt)
    \/ \E s \in {Guest, Host}, p \in PropertyIds, cin \in CheckInDates,
          st \in Stays, amt \in Amounts :
          createBookingPaid(s, p, cin, cin + st, amt)
    \/ \E s \in Senders, id \in CallIds : triggerCheckInWindow(s, id)
    \/ \E s \in Senders, id \in CallIds : checkIn(s, id)
    \/ \E s \in Senders, id \in CallIds : processMissedCheckIn(s, id)
    \/ \E s \in Senders, id \in CallIds : hostResolveDispute(s, id)
    \/ \E s \in Senders, id \in CallIds : guestResolveDispute(s, id)
    \/ \E s \in Senders, id \in CallIds : escalateDispute(s, id)
    \/ \E s \in Senders, id \in CallIds, pct \in Percentages :
          adminResolveDispute(s, id, pct)
    \/ \E s \in Senders, id \in CallIds : cancelBooking(s, id)
    \/ \E d \in {1, ONE_DAY} : Tick(d)

Spec == Init /\ [][Next]_vars


\* ================================================================= claims
Exists(id) == bookings[id].bookingId = id
Live(id) == Exists(id) /\ bookings[id].status \notin {"Cancelled", "Refunded"}
BothResolved(b) == b.isResolvedByHost /\ b.isResolvedByGuest
ResolveCalls == {"hostResolveDispute", "guestResolveDispute"}

\* C1: two distinct bookings of the same property that were both created and
\* neither of which is Cancelled or Refunded never have overlapping
\* [checkInDate, checkOutDate) intervals.
C1_NoDoubleBooking ==
    \A i \in BookingIds, j \in BookingIds :
        (i # j /\ Live(i) /\ Live(j)
         /\ bookings[i].propertyId = bookings[j].propertyId)
        => ~(bookings[i].checkInDate < bookings[j].checkOutDate
             /\ bookings[j].checkInDate < bookings[i].checkOutDate)

C1_Witness ==
    /\ tx.fn \in {"createBooking", "createBookingPaid"}
    /\ \E i \in BookingIds, j \in BookingIds :
          /\ i # j /\ Live(i) /\ Live(j)
          /\ bookings[i].propertyId = bookings[j].propertyId
          /\ bookings[i].checkOutDate = bookings[j].checkInDate

\* C2: every booking carries platformFee = floor(totalAmount * fee / 1000)
\* and hostAmount = totalAmount - platformFee, so the two always sum to
\* totalAmount, also after an admin resolution with any percentage.
C2_FeeConservation ==
    \A id \in BookingIds :
        Exists(id) =>
            /\ bookings[id].platformFee =
                   (bookings[id].totalAmount * platformFeePercentage) \div 1000
            /\ bookings[id].hostAmount =
                   bookings[id].totalAmount - bookings[id].platformFee
            /\ bookings[id].platformFee + bookings[id].hostAmount =
                   bookings[id].totalAmount

C2_Witness ==
    /\ tx.fn = "adminResolveDispute" /\ tx.pct = 33
    /\ bookings[tx.id].status = "Completed"
    /\ bookings[tx.id].platformFee > 0
    /\ bookings[tx.id].platformFee * 1000 <
           bookings[tx.id].totalAmount * platformFeePercentage

\* C3: when a resolve call on a Disputed booking, made no later than
\* disputeDeadline, leaves both resolution flags true, that same call has
\* set the status to Completed.
C3_DualConsentCompletes ==
    \A id \in BookingIds :
        (/\ tx.fn \in ResolveCalls /\ tx.ok /\ tx.id = id
         /\ pre[id].status = "Disputed"
         /\ now <= pre[id].disputeDeadline
         /\ BothResolved(bookings[id]))
        => bookings[id].status = "Completed"

C3_Witness ==
    /\ tx.fn = "hostResolveDispute" /\ tx.ok
    /\ pre[tx.id].status = "Disputed"
    /\ pre[tx.id].isResolvedByGuest /\ ~pre[tx.id].isResolvedByHost
    /\ BothResolved(bookings[tx.id])
    /\ bookings[tx.id].status = "Completed"
    /\ now <= bookings[tx.id].disputeDeadline

\* C4 as stated: a booking is Completed exactly when both resolution flags
\* are true.
C4_CompletedIffBothResolved ==
    \A id \in BookingIds :
        Exists(id) =>
            (bookings[id].status = "Completed" <=> BothResolved(bookings[id]))

\* C4 amended: both flags true implies Completed, and a booking becomes
\* Completed only by a call that leaves both flags true or by
\* adminResolveDispute on an EscalatedToAdmin booking with a percentage
\* below 100.
C4_CompletedByConsentOrAdmin ==
    \A id \in BookingIds :
        /\ BothResolved(bookings[id]) => bookings[id].status = "Completed"
        /\ (pre[id].status # "Completed" /\ bookings[id].status = "Completed")
           => \/ BothResolved(bookings[id])
              \/ /\ pre[id].status = "EscalatedToAdmin"
                 /\ tx.fn = "adminResolveDispute" /\ tx.id = id
                 /\ tx.pct < 100

C4_Witness ==
    /\ tx.fn = "adminResolveDispute"
    /\ bookings[tx.id].status = "Completed"
    /\ ~BothResolved(bookings[tx.id])

\* A resolution flag is raised only by the matching resolve call sent by the
\* booking's own host, respectively guest.
VotesCastByParties ==
    \A id \in BookingIds :
        /\ (~pre[id].isResolvedByHost /\ bookings[id].isResolvedByHost)
           => /\ tx.fn = "hostResolveDispute" /\ tx.id = id
              /\ tx.sender = bookings[id].host
        /\ (~pre[id].isResolvedByGuest /\ bookings[id].isResolvedByGuest)
           => /\ tx.fn = "guestResolveDispute" /\ tx.id = id
              /\ tx.sender = bookings[id].guest

LeftDisputeCompleted(id) ==
    pre[id].status = "Disputed" /\ bookings[id].status = "Completed"

StatusMoves(id) == Next /\ bookings'[id].status # bookings[id].status

\* C6: a booking whose guest has checked in can still proceed towards
\* Completed: some permitted transition moves it out of CheckedIn.
C6_CheckedInCanProceed ==
    \A id \in BookingIds :
        bookings[id].status = "CheckedIn" => ENABLED StatusMoves(id)

AllowedStatusChanges ==
    {<<"Active", "CheckInReady">>, <<"CheckInReady", "CheckedIn">>,
     <<"CheckInReady", "Disputed">>, <<"Disputed", "Completed">>,
     <<"Disputed", "EscalatedToAdmin">>, <<"Active", "Cancelled">>,
     <<"EscalatedToAdmin", "Completed">>, <<"EscalatedToAdmin", "Refunded">>}

\* C7: every change of a booking's status is one of the eight listed
\* transitions, so Completed, Cancelled and Refunded are never left.
C7_StatusTransitions ==
    \A id \in BookingIds :
        bookings[id].status # pre[id].status
        => <<pre[id].status, bookings[id].status>> \in AllowedStatusChanges

C7_Witness ==
    \E id \in BookingIds :
        /\ Exists(id)
        /\ pre[id].status \in {"Completed", "Cancelled", "Refunded"}
        /\ tx.fn # "" /\ tx.ok /\ tx.id # id

\* C8: isCheckInComplete, isResolvedByHost and isResolvedByGuest never go
\* from true to false.
C8_FlagsMonotonic ==
    \A id \in BookingIds :
        /\ pre[id].isCheckInComplete => bookings[id].isCheckInComplete
        /\ pre[id].isResolvedByHost => bookings[id].isResolvedByHost
        /\ pre[id].isResolvedByGuest => bookings[id].isResolvedByGuest

C8_Witness ==
    /\ tx.fn = "escalateDispute"
    /\ pre[tx.id].isResolvedByGuest
    /\ bookings[tx.id].isResolvedByGuest
    /\ bookings[tx.id].status = "EscalatedToAdmin"

EscalationDue(b) ==
    /\ b.status = "Disputed"
    /\ now > b.disputeDeadline
    /\ ~(b.isResolvedByHost /\ b.isResolvedByGuest)

\* C9: escalateDispute passes its checks, whoever calls, exactly when the
\* booking is Disputed, the time is past disputeDeadline and not both
\* parties have resolved; a successful call leaves it EscalatedToAdmin.
C9_EscalateExactlyWhenDue ==
    /\ \A id \in CallIds :
          escalateDisputeRevert(id) = "" <=> EscalationDue(BookingAt(id))
    /\ tx.fn = "escalateDispute"
       => /\ EscalationDue(pre[tx.id])
          /\ bookings[tx.id].status = "EscalatedToAdmin"

C9_Witness ==
    /\ tx.fn = "escalateDispute" /\ tx.ok
    /\ tx.sender \notin {bookings[tx.id].host, bookings[tx.id].guest}
    /\ bookings[tx.id].status = "EscalatedToAdmin"
    /\ bookings[tx.id].isResolvedByHost
    /\ ~bookings[tx.id].isResolvedByGuest

\* C10: adminResolveDispute passes its checks only for the owner, on an
\* EscalatedToAdmin booking, with a percentage of at most 100; a successful
\* call leaves the booking Refunded for 100 and Completed otherwise.
C10_AdminResolve ==
    /\ \A s \in Senders, id \in CallIds, pct \in Percentages :
          adminResolveDisputeRevert(s, id, pct) = ""
          => /\ s = owner
             /\ BookingAt(id).status = "EscalatedToAdmin"
             /\ pct \in 0..100
    /\ tx.fn = "adminResolveDispute"
       => /\ tx.sender = owner
          /\ pre[tx.id].status = "EscalatedToAdmin"
          /\ tx.pct \in 0..100
          /\ bookings[tx.id].status =
                 IF tx.pct = 100 THEN "Refunded" ELSE "Completed"

C10_Witness ==
    /\ tx.fn = "adminResolveDispute" /\ tx.ok /\ tx.pct = 100
    /\ tx.sender = owner
    /\ bookings[tx.id].status = "Refunded"

\* What holder a received in the latest transaction.
Received(a) == balances[a] - preBalances[a]

\* C11: on the EURC path adminResolveDispute with percentage p pays
\* platformFee to the treasury whatever p is, floor(hostAmount * p / 100) to
\* the guest and the rest of hostAmount to the host; the three payments sum
\* to totalAmount and leave the contract, and with p = 0 the host receives
\* the whole hostAmount.
C11_AdminSplit ==
    (tx.fn = "adminResolveDispute" /\ ~bookings[tx.id].paidOffChain)
    => LET b == bookings[tx.id]
           refund == (b.hostAmount * tx.pct) \div 100
       IN  /\ Received(Treasury) = b.platformFee
           /\ Received(b.guest) = refund
           /\ Received(b.host) = b.hostAmount - refund
           /\ Received(Treasury) + Received(b.guest) + Received(b.host)
                  = b.totalAmount
           /\ Received(Escrow) = 0 - b.totalAmount
           /\ tx.pct = 0 => Received(b.host) = b.hostAmount

C11_Witness ==
    /\ tx.fn = "adminResolveDispute" /\ tx.pct = 33
    /\ ~bookings[tx.id].paidOffChain
    /\ Received(bookings[tx.id].guest) > 0
    /\ Received(bookings[tx.id].guest) * 100 < bookings[tx.id].hostAmount * 33
    /\ Received(Treasury) > 0

WindowCanOpen(b) ==
    /\ b.status = "Active"
    /\ now >= b.checkInDate
    /\ b.checkInWindowStart = 0

\* C12: on a booking, triggerCheckInWindow passes its checks, whoever calls,
\* exactly when the status is Active, the time has reached checkInDate and
\* checkInWindowStart is 0; a successful call sets checkInWindowStart to the
\* current time, checkInDeadline 24 hours later and the status CheckInReady.
C12_TriggerCheckInWindow ==
    /\ \A id \in BookingIds :
          Exists(id)
          => (triggerCheckInWindowRevert(id) = "" <=> WindowCanOpen(bookings[id]))
    /\ tx.fn = "triggerCheckInWindow"
       => /\ WindowCanOpen(pre[tx.id])
          /\ bookings[tx.id].checkInWindowStart = now
          /\ bookings[tx.id].checkInDeadline = now + 24 * 3600
          /\ bookings[tx.id].status = "CheckInReady"

C12_Witness ==
    /\ tx.fn = "triggerCheckInWindow"
    /\ tx.sender \notin {bookings[tx.id].host, bookings[tx.id].guest}
    /\ now = bookings[tx.id].checkInDate
    /\ bookings[tx.id].status = "CheckInReady"
    /\ bookings[tx.id].checkInDeadline = now + 24 * 3600

CanCheckIn(s, b) ==
    /\ s = b.guest
    /\ b.status = "CheckInReady"
    /\ now <= b.checkInDeadline

\* C13: checkIn passes its checks exactly when the caller is the guest, the
\* status is CheckInReady and the time is at most checkInDeadline, the
\* deadline instant included; a successful call sets the status CheckedIn
\* and isCheckInComplete.
C13_CheckIn ==
    /\ \A s \in Senders, id \in CallIds :
          checkInRevert(s, id) = "" <=> CanCheckIn(s, BookingAt(id))
    /\ tx.fn = "checkIn"
       => /\ CanCheckIn(tx.sender, pre[tx.id])
          /\ bookings[tx.id].status = "CheckedIn"
          /\ bookings[tx.id].isCheckInComplete

C13_Witness ==
    /\ tx.fn = "checkIn"
    /\ tx.sender = bookings[tx.id].guest
    /\ now = bookings[tx.id].checkInDeadline
    /\ bookings[tx.id].status = "CheckedIn"
    /\ bookings[tx.id].isCheckInComplete

CheckInMissed(b) ==
    /\ b.status = "CheckInReady"
    /\ now > b.checkInDeadline

\* C14: processMissedCheckIn passes its checks, whoever calls, exactly when
\* the status is CheckInReady and the time is strictly past checkInDeadline;
\* a successful call sets the status Disputed, disputeDeadline 24 hours after
\* the current time and disputeReason "Missed check-in".
C14_ProcessMissedCheckIn ==
    /\ \A id \in CallIds :
          processMissedCheckInRevert(id) = "" <=> CheckInMissed(BookingAt(id))
    /\ tx.fn = "processMissedCheckIn"
       => /\ CheckInMissed(pre[tx.id])
          /\ bookings[tx.id].status = "Disputed"
          /\ bookings[tx.id].disputeDeadline = now + 24 * 3600
          /\ bookings[tx.id].disputeReason = "Missed check-in"

C14_Witness ==
    /\ tx.fn = "processMissedCheckIn"
    /\ tx.sender \notin {bookings[tx.id].host, bookings[tx.id].guest}
    /\ now = pre[tx.id].checkInDeadline + 1
    /\ bookings[tx.id].status = "Disputed"
    /\ bookings[tx.id].disputeReason = "Missed check-in"

CanCancel(s, b) ==
    /\ s = b.guest
    /\ b.status = "Active"
    /\ now < b.checkInDate

\* C15: cancelBooking passes its checks exactly when the caller is the
\* guest, the status is Active and the time is strictly before checkInDate;
\* a successful call sets the status Cancelled and, for a booking paid in
\* EURC only, pays hostAmount back to the guest and platformFee to the
\* treasury; for a booking paid off-chain no token moves.
C15_CancelBooking ==
    /\ \A s \in Senders, id \in CallIds :
          cancelBookingRevert(s, id) = "" <=> CanCancel(s, BookingAt(id))
    /\ tx.fn = "cancelBooking"
       => LET b == bookings[tx.id] IN
          /\ CanCancel(tx.sender, pre[tx.id])
          /\ b.status = "Cancelled"
          /\ ~b.paidOffChain
             => /\ Received(b.guest) = b.hostAmount
                /\ Received(Treasury) = b.platformFee
                /\ Received(Escrow) = 0 - b.totalAmount
                /\ Received(b.host) = 0
          /\ b.paidOffChain => balances = preBalances

C15_Witness ==
    /\ tx.fn = "cancelBooking"
    /\ ~bookings[tx.id].paidOffChain
    /\ bookings[tx.id].status = "Cancelled"
    /\ Received(bookings[tx.id].guest) = bookings[tx.id].hostAmount
    /\ Received(Treasury) > 0

C15_WitnessOffChain ==
    /\ tx.fn = "cancelBooking"
    /\ bookings[tx.id].paidOffChain
    /\ bookings[tx.id].status = "Cancelled"

DateConflict == "Booking dates conflict with existing booking"

\* Some live booking on property p overlaps the half-open range [cin, cout).
Overlaps(p, cin, cout) ==
    \E id \in BookingIds :
        /\ Live(id)
        /\ bookings[id].propertyId = p
        /\ cin < bookings[id].checkOutDate
        /\ cout > bookings[id].checkInDate

\* The requires that precede the conflict test on both creation paths.
ReachesConflictTest(p, cin, cout) ==
    /\ properties(p).isActive
    /\ properties(p).owner # ZeroAddress
    /\ cin > now
    /\ cout > cin

\* C16: a creation on property P for [in, out) is refused for a date
\* conflict exactly when a booking on P that is neither Cancelled nor
\* Refunded has in < its checkOutDate and out > its checkInDate (the
\* requires before the conflict test having passed); an overlapping request
\* is never accepted, and a request that starts at an existing booking's
\* checkOutDate is accepted.
C16_DateConflict ==
    /\ \A p \in PropertyIds, cin \in CheckInDates, st \in Stays :
          LET cout == cin + st IN
          /\ hasBookingConflict(p, cin, cout) <=> Overlaps(p, cin, cout)
          /\ \A s \in {Guest, Host}, amt \in Amounts :
                /\ createBookingPaidRevert(s, p, cin, cout, amt) = DateConflict
                   <=> ReachesConflictTest(p, cin, cout) /\ Overlaps(p, cin, cout)
                /\ createBookingRevert(s, p, cin, cout, amt) = DateConflict
                   <=> /\ ReachesConflictTest(p, cin, cout)
                       /\ s # properties(p).owner
                       /\ Overlaps(p, cin, cout)
                /\ Overlaps(p, cin, cout)
                   => /\ createBookingRevert(s, p, cin, cout, amt) # ""
                      /\ createBookingPaidRevert(s, p, cin, cout, amt) # ""
    /\ tx.fn \in {"createBooking", "createBookingPaid"}
       => \A id \in BookingIds \ {tx.id} :
             (Live(id) /\ pre[id].propertyId = bookings[tx.id].propertyId)
             => ~(tx.checkIn < pre[id].checkOutDate
                  /\ tx.checkOut > pre[id].checkInDate)

\* a back-to-back booking has just been accepted
C16_Witness ==
    /\ tx.fn \in {"createBooking", "createBookingPaid"}
    /\ \E id \in BookingIds \ {tx.id} :
          /\ Live(id)
          /\ bookings[id].propertyId = bookings[tx.id].propertyId
          /\ bookings[tx.id].checkInDate = bookings[id].checkOutDate

\* an overlapping request is being refused for the conflict
C16_WitnessRefused ==
    \E cin \in CheckInDates, st \in Stays :
        /\ createBookingRevert(Guest, "P1", cin, cin + st, 333) = DateConflict
        /\ Overlaps("P1", cin, cin + st)

\* C17: every created booking has checkOutDate - checkInDate equal to a
\* positive whole number of days of 86400 seconds.
C17_WholeDays ==
    \A id \in BookingIds :
        Exists(id)
        => /\ bookings[id].checkOutDate - bookings[id].checkInDate > 0
           /\ (bookings[id].checkOutDate - bookings[id].checkInDate) % 86400 = 0

\* C18: createBooking never creates a booking whose guest is the property's
\* host, createBookingPaid treats the host like any other caller, and both
\* refuse unless the property is active, checkInDate is strictly in the
\* future and checkOutDate is after checkInDate.
C18_CreationChecks ==
    /\ \A id \in BookingIds :
          (Exists(id) /\ ~bookings[id].paidOffChain)
          => bookings[id].guest # bookings[id].host
    /\ \A p \in PropertyIds, cin \in CheckInDates, st \in Stays,
          amt \in Amounts :
          /\ createBookingPaidRevert(Host, p, cin, cin + st, amt)
                 = createBookingPaidRevert(Guest, p, cin, cin + st, amt)
          /\ \A s \in {Guest, Host} :
                (\/ createBookingRevert(s, p, cin, cin + st, amt) = ""
                 \/ createBookingPaidRevert(s, p, cin, cin + st, amt) = "")
                => /\ properties(p).isActive
                   /\ cin > now
                   /\ cin + st > cin
          /\ \A s \in {Guest, Host} :
                createBookingRevert(s, p, cin, cin + st, amt) = ""
                => s # properties(p).owner
    /\ tx.fn \in {"createBooking", "createBookingPaid"}
       => /\ properties(bookings[tx.id].propertyId).isActive
          /\ tx.checkIn > now
          /\ tx.checkOut > tx.checkIn
          /\ tx.fn = "createBooking"
             => tx.sender # properties(bookings[tx.id].propertyId).owner

\* the host has booked the host's own property through createBookingPaid
C18_Witness ==
    /\ tx.fn = "createBookingPaid"
    /\ bookings[tx.id].guest = bookings[tx.id].host
    /\ bookings[tx.id].paidOffChain
    /\ createBookingRevert(Host, "P1", 3 * 86400, 4 * 86400, 333) # ""
    /\ createBookingPaidRevert(Guest, "P2", 3 * 86400, 4 * 86400, 333) # ""

WindowNotOpened == {"Active", "Cancelled"}
DisputeRaised == {"Disputed", "EscalatedToAdmin", "Completed", "Refunded"}

\* C20: checkInWindowStart and checkInDeadline are 0 until the check-in
\* window opens and are written once, by triggerCheckInWindow;
\* disputeDeadline is written once, by processMissedCheckIn when the dispute
\* is raised; once one of the three is non-zero no step changes it.
C20_TimestampsWrittenOnce ==
    \A id \in BookingIds :
        LET b == bookings[id]
            was == pre[id]
        IN  /\ was.checkInWindowStart # 0
               => b.checkInWindowStart = was.checkInWindowStart
            /\ was.checkInDeadline # 0
               => b.checkInDeadline = was.checkInDeadline
            /\ was.disputeDeadline # 0
               => b.disputeDeadline = was.disputeDeadline
            /\ (b.checkInWindowStart # was.checkInWindowStart
                \/ b.checkInDeadline # was.checkInDeadline)
               => /\ tx.fn = "triggerCheckInWindow" /\ tx.id = id
                  /\ was.checkInWindowStart = 0 /\ was.checkInDeadline = 0
                  /\ b.checkInWindowStart # 0 /\ b.checkInDeadline # 0
            /\ b.disputeDeadline # was.disputeDeadline
               => /\ tx.fn = "processMissedCheckIn" /\ tx.id = id
                  /\ was.disputeDeadline = 0
                  /\ b.disputeDeadline # 0
            /\ b.status \in WindowNotOpened
               <=> (b.checkInWindowStart = 0 /\ b.checkInDeadline = 0)
            /\ b.status \in WindowNotOpened
               <=> (b.checkInWindowStart = 0 \/ b.checkInDeadline = 0)
            /\ b.status \in DisputeRaised <=> b.disputeDeadline # 0

\* a later step on a booking whose three timestamps are all set
C20_Witness ==
    /\ tx.fn \in {"escalateDispute", "hostResolveDispute",
                  "guestResolveDispute", "adminResolveDispute"}
    /\ pre[tx.id].checkInWindowStart # 0
    /\ pre[tx.id].checkInDeadline # 0
    /\ pre[tx.id].disputeDeadline # 0
    /\ bookings[tx.id].status # pre[tx.id].status
    /\ bookings[tx.id].disputeDeadline = pre[tx.id].disputeDeadline

Transitions ==
    {"triggerCheckInWindow", "checkIn", "processMissedCheckIn",
     "hostResolveDispute", "guestResolveDispute", "escalateDispute",
     "adminResolveDispute", "cancelBooking"}

CanResolve(s, party, b) ==
    /\ s = party
    /\ b.status = "Disputed"
    /\ now <= b.disputeDeadline

\* The status a transition leaves, from the booking as it was and the
\* percentage; paidOffChain is not read.
StatusAfter(fn, was, pct) ==
    CASE fn = "triggerCheckInWindow" -> "CheckInReady"
      [] fn = "checkIn" -> "CheckedIn"
      [] fn = "processMissedCheckIn" -> "Disputed"
      [] fn = "hostResolveDispute" ->
             IF was.isResolvedByGuest THEN "Completed" ELSE "Disputed"
      [] fn = "guestResolveDispute" ->
             IF was.isResolvedByHost THEN "Completed" ELSE "Disputed"
      [] fn = "escalateDispute" -> "EscalatedToAdmin"
      [] fn = "adminResolveDispute" ->
             IF pct = 100 THEN "Refunded" ELSE "Completed"
      [] fn = "cancelBooking" -> "Cancelled"

\* C21: whether a transition is accepted, and the status it leaves, depend
\* on the caller, the time and the booking's fields other than paidOffChain,
\* so a booking paid off-chain and its EURC twin pass through the same
\* statuses; no transition of an off-chain-paid booking, nor its creation,
\* moves a token; and paidOffChain never changes once the booking exists.
C21_OffChainSameStatuses ==
    /\ \A s \in Senders, id \in BookingIds :
          Exists(id)
          => LET b == bookings[id] IN
             /\ triggerCheckInWindowRevert(id) = "" <=> WindowCanOpen(b)
             /\ checkInRevert(s, id) = "" <=> CanCheckIn(s, b)
             /\ processMissedCheckInRevert(id) = "" <=> CheckInMissed(b)
             /\ hostResolveDisputeRevert(s, id) = "" <=> CanResolve(s, b.host, b)
             /\ guestResolveDisputeRevert(s, id) = ""
                   <=> CanResolve(s, b.guest, b)
             /\ escalateDisputeRevert(id) = "" <=> EscalationDue(b)
             /\ cancelBookingRevert(s, id) = "" <=> CanCancel(s, b)
             /\ \A pct \in Percentages :
                   adminResolveDisputeRevert(s, id, pct) = ""
                   <=> (s = owner /\ b.status = "EscalatedToAdmin" /\ pct <= 100)
    /\ tx.fn \in Transitions
       => /\ bookings[tx.id].status = StatusAfter(tx.fn, pre[tx.id], tx.pct)
          /\ bookings[tx.id].paidOffChain => balances = preBalances
    /\ tx.fn = "createBookingPaid"
       => (bookings[tx.id].paidOffChain /\ balances = preBalances)
    /\ tx.fn = "createBooking" => ~bookings[tx.id].paidOffChain
    /\ \A id \in BookingIds :
          pre[id].bookingId = id
          => bookings[id].paidOffChain = pre[id].paidOffChain

\* an off-chain-paid booking has just been completed by dual consent while
\* the contract holds another booking's escrow, and no token moved
C21_Witness ==
    /\ tx.fn \in {"hostResolveDispute", "guestResolveDispute"}
    /\ bookings[tx.id].paidOffChain
    /\ bookings[tx.id].status = "Completed"
    /\ bookings[tx.id].guest # bookings[tx.id].host
    /\ balances[Escrow] > 0
    /\ balances = preBalances

C21_WitnessAdmin ==
    /\ tx.fn = "adminResolveDispute" /\ tx.pct = 33
    /\ bookings[tx.id].paidOffChain
    /\ balances = preBalances

\* ======================================================= the EventListener
\* Ledger side.  Block b > DeploymentBlock holds the BookingCreated event of
\* booking b - DeploymentBlock; bookings alternate between two properties.
bookingIdOf(b) == b - DeploymentBlock

propertyIdOf(b) == IF bookingIdOf(b) % 2 = 1 THEN "P1" ELSE "P2"

\* processEvent's eventId: `${transactionHash}-${eventName}-${args}`
eventId(b) == <<b, "BookingCreated", <<bookingIdOf(b), propertyIdOf(b)>>>>

Max(a, b) == IF a >= b THEN a ELSE b
Min(a, b) == IF a <= b THEN a ELSE b

\* queryFilter('*', fromBlock, toBlock), sorted by block number
EventsBetween(from, to) ==
    LET lo == Max(from, DeploymentBlock + 1)
        hi == Min(to, blockNumber)
    IN  [i \in 1..Max(0, hi - lo + 1) |-> lo + i - 1]

\* findBookingsByPropertyId as Strapi answers it
findBookingsByPropertyId(p) ==
    {b \in EventBlocks : strapiBookings[b] > 0 /\ propertyIdOf(b) = p}

\* processEvent without its processedEvents check
AlreadySeenInFlightOnly(b, processed, processing) ==
    eventId(b) \in processing

\* processEvent without its processingEvents check
AlreadySeenCommittedOnly(b, processed, processing) ==
    eventId(b) \in processed

\* processEvent's two has() checks, before the marker is inserted
AlreadySeen(b, processed, processing) ==
    eventId(b) \in processing \/ eventId(b) \in processed

\* What processEvent leaves in processedEvents once the handler has
\* returned: the booking handlers catch their own errors, so they return
\* normally whether or not the projection was written.
Committed(processed, b, ok) == processed \cup {eventId(b)}

\* initialize()'s choice of the block to continue after: the saved one when
\* it is positive and not beyond the head, else the head.
ResumeBlock(state, currentBlock) ==
    IF state > 0 /\ state <= currentBlock THEN state ELSE currentBlock

\* a pass that fetches the cursor's own block again
fromBlockInclusive(t, currentBlock) == lastProcessedBlock

\* The first block a pass fetches: processNewBlocks always continues after
\* the cursor; processHistoricalEvents looks 1000 blocks back when the
\* cursor is 0.
fromBlock(t, currentBlock) ==
    IF Kind(t) = "poll" \/ lastProcessedBlock > 0
    THEN lastProcessedBlock + 1
    ELSE Max(0, currentBlock - 1000)

\* Fewer than MaxInFlight passes are running.
RoomForTask ==
    Cardinality({t \in TaskIds : tasks[t].pc # "idle"}) < MaxInFlight

\* The passes, with the handler executions whose identity is not in the
\* in-flight set any more flagged as unmarked (bookkeeping).
WithMarkers(ts, processing) ==
    [u \in TaskIds |->
        IF /\ Kind(u) # "reconcile"
           /\ ts[u].pc \in {"find", "post"}
           /\ eventId(Head(ts[u].queue)) \notin processing
        THEN [ts[u] EXCEPT !.unmarked = TRUE]
        ELSE ts[u]]

\* The loop `for (const event of events) await this.processEvent(event)`
\* from the point where control returns to it, up to the next await: events
\* already seen are skipped; the first other one gets its in-flight marker
\* and its handler starts (awaiting the ledger); when none is left a polling
\* pass sets lastProcessedBlock and saves it to the state file.
Resume(t, tk, q, processed, processing, st) ==
    LET fresh == {i \in 1..Len(q) : ~AlreadySeen(q[i], processed, processing)}
        k == IF fresh = {} THEN 0
             ELSE CHOOSE i \in fresh : \A j \in fresh : i <= j
        skipped == {q[i] : i \in IF k = 0 THEN 1..Len(q) ELSE 1..(k - 1)}
        polling == Kind(t) \in {"historical", "poll"}
    IN  /\ processedEvents' = processed
        /\ IF k # 0
           THEN /\ processingEvents' = processing \cup {eventId(q[k])}
                /\ tasks' = [WithMarkers(tasks, processing) EXCEPT ![t] =
                       [tk EXCEPT !.pc = "find", !.from = 0,
                                  !.to = IF polling THEN @ ELSE 0,
                                  !.queue = SubSeq(q, k, Len(q)),
                                  !.reapply = strapiBookings[q[k]] > 0,
                                  !.unmarked = FALSE]]
                /\ step' = [st EXCEPT !.skipped = skipped, !.started = q[k]]
                /\ UNCHANGED <<lastProcessedBlock, stateFile>>
           ELSE /\ processingEvents' = processing
                /\ tasks' = [WithMarkers(tasks, processing) EXCEPT
                                 ![t] = IdleTask]
                /\ step' = [st EXCEPT !.skipped = skipped,
                                      !.advanced = polling,
                                      !.failed = tk.failed,
                                      !.queryFailed = tk.queryFailed,
                                      !.was = IF polling
                                              THEN lastProcessedBlock
                                              ELSE 0]
                /\ lastProcessedBlock' =
                       IF polling THEN tk.to ELSE lastProcessedBlock
                /\ stateFile' = IF polling THEN tk.to ELSE stateFile

\* reconcileChainToStrapi's loop over the guest's bookings: no idempotency
\* sets, no cursor.
ResumeReconcile(t, tk, q, st) ==
    /\ tasks' = [tasks EXCEPT ![t] =
           IF q = <<>> THEN IdleTask
           ELSE [tk EXCEPT !.pc = "find", !.queue = q,
                           !.reapply = strapiBookings[Head(q)] > 0]]
    /\ step' = st
    /\ UNCHANGED <<processedEvents, processingEvents,
                   lastProcessedBlock, stateFile>>

\* a loop that a failed handler ends
FinishAbortsOnFailure(t, ok, op) ==
    LET b == Head(tasks[t].queue)
        tk == [tasks[t] EXCEPT !.failed = IF ok THEN @ ELSE @ \cup {b}]
        st == [NoStep EXCEPT !.task = t, !.op = op, !.event = b, !.ok = ok,
                             !.committed = (Kind(t) # "reconcile"),
                             !.reapply = tasks[t].reapply,
                             !.rest = Tail(tasks[t].queue)]
        q == IF ok THEN Tail(tasks[t].queue) ELSE <<>>
    IN  IF Kind(t) = "reconcile"
        THEN ResumeReconcile(t, tk, q, st)
        ELSE Resume(t, tk, q, Committed(processedEvents, b, ok),
                    processingEvents \ {eventId(b)}, st)

\* The handler (or reconcile's createBookingInStrapi call) for the event at
\* the head of the queue has returned; ok tells whether its work succeeded.
Finish(t, ok, op) ==
    LET b == Head(tasks[t].queue)
        tk == [tasks[t] EXCEPT !.failed = IF ok THEN @ ELSE @ \cup {b}]
        st == [NoStep EXCEPT !.task = t, !.op = op, !.event = b, !.ok = ok,
                             !.committed = (Kind(t) # "reconcile"),
                             !.reapply = tasks[t].reapply,
                             !.rest = Tail(tasks[t].queue)]
    IN  IF Kind(t) = "reconcile"
        THEN ResumeReconcile(t, tk, Tail(tasks[t].queue), st)
        ELSE Resume(t, tk, Tail(tasks[t].queue),
                    Committed(processedEvents, b, ok),
                    processingEvents \ {eventId(b)}, st)

\* A transaction on the ledger creates the next booking.
emitBookingCreated ==
    /\ blockNumber < MaxBlocks
    /\ blockNumber' = blockNumber + 1
    /\ step' = NoStep
    /\ UNCHANGED <<lastProcessedBlock, stateFile, isRunning, processedEvents,
                   processingEvents, strapiBookings, tasks,
                   resumedAt, forgotten>>
    /\ UNCHANGED offListenerVars

\* The process (re)starts: constructor, initialize() and start().  Whatever
\* was in flight is gone with the old process; the state file and Strapi
\* are kept.  startPolling() calls processHistoricalEvents() without
\* awaiting it.
initialize ==
    LET currentBlock == blockNumber
        state == stateFile
    IN  /\ lastProcessedBlock' = ResumeBlock(state, currentBlock)
        /\ stateFile' = ResumeBlock(state, currentBlock)
        /\ resumedAt' = lastProcessedBlock'
        /\ isRunning' = TRUE
        /\ processedEvents' = {}
        /\ processingEvents' = {}
        /\ forgotten' = forgotten \cup processedEvents
        /\ tasks' = [t \in TaskIds |->
               IF t = Historical THEN [IdleTask EXCEPT !.pc = "head"]
               ELSE IdleTask]
        /\ step' = [NoStep EXCEPT !.op = "initialize", !.was = state]
        /\ UNCHANGED <<blockNumber, strapiBookings>>
        /\ UNCHANGED offListenerVars

\* The 5-second interval fires; nothing checks whether an earlier pass is
\* still running.
intervalTick(t) ==
    /\ isRunning
    /\ RoomForTask
    /\ tasks[t].pc = "idle"
    /\ tasks' = [tasks EXCEPT ![t] = [IdleTask EXCEPT !.pc = "head"]]
    /\ step' = NoStep
    /\ UNCHANGED <<blockNumber, lastProcessedBlock, stateFile, isRunning,
                   processedEvents, processingEvents, strapiBookings,
                   resumedAt, forgotten>>
    /\ UNCHANGED offListenerVars

\* `await this.provider.getBlockNumber()` of processNewBlocks or
\* processHistoricalEvents returns, or throws when the RPC is unreachable.
getBlockNumber(t, ok) ==
    /\ tasks[t].pc = "head"
    /\ LET currentBlock == blockNumber
           fetch == Kind(t) = "historical" \/ currentBlock > lastProcessedBlock
       IN  tasks' = [tasks EXCEPT ![t] =
               IF ok /\ fetch
               THEN [IdleTask EXCEPT !.pc = "query",
                                     !.from = fromBlock(t, currentBlock),
                                     !.to = currentBlock]
               ELSE IdleTask]
    /\ step' = NoStep
    /\ UNCHANGED <<blockNumber, lastProcessedBlock, stateFile, isRunning,
                   processedEvents, processingEvents, strapiBookings,
                   resumedAt, forgotten>>
    /\ UNCHANGED offListenerVars

\* `await this.getAllEvents(from, to)` returns: the events of the range, or
\* none when a queryFilter call threw (getAllEvents catches and returns what
\* it has, which is no booking event); the loop over them begins.
getAllEvents(t, ok) ==
    /\ tasks[t].pc = "query"
    /\ Resume(t, [tasks[t] EXCEPT !.queryFailed = ~ok],
              IF ok THEN EventsBetween(tasks[t].from, tasks[t].to) ELSE <<>>,
              processedEvents, processingEvents,
              [NoStep EXCEPT !.op = "getAllEvents", !.task = t, !.ok = ok])
    /\ UNCHANGED <<blockNumber, isRunning, strapiBookings,
                   resumedAt, forgotten>>
    /\ UNCHANGED offListenerVars

\* POST /api/events/process with a block range (the requests drawn are for
\* every block after the deployment)
processEventsRequest(from, to) ==
    /\ from <= to
    /\ isRunning
    /\ RoomForTask
    /\ tasks[Manual].pc = "idle"
    /\ tasks' = [tasks EXCEPT ![Manual] =
           [IdleTask EXCEPT !.pc = "query", !.from = from, !.to = to]]
    /\ step' = NoStep
    /\ UNCHANGED <<blockNumber, lastProcessedBlock, stateFile, isRunning,
                   processedEvents, processingEvents, strapiBookings,
                   resumedAt, forgotten>>
    /\ UNCHANGED offListenerVars

\* POST /api/reconcile with the guest's address
reconcileRequest ==
    /\ isRunning
    /\ RoomForTask
    /\ tasks[Reconcile].pc = "idle"
    /\ tasks' = [tasks EXCEPT ![Reconcile] = [IdleTask EXCEPT !.pc = "list"]]
    /\ step' = NoStep
    /\ UNCHANGED <<blockNumber, lastProcessedBlock, stateFile, isRunning,
                   processedEvents, processingEvents, strapiBookings,
                   resumedAt, forgotten>>
    /\ UNCHANGED offListenerVars

\* `await this.contracts.bookingManager.getGuestBookings(userAddress)`
\* returns (the properties loop before it finds every property present), or
\* throws and the reconciliation fails.
getGuestBookings(ok) ==
    /\ tasks[Reconcile].pc = "list"
    /\ ResumeReconcile(Reconcile, tasks[Reconcile],
                       IF ok THEN EventsBetween(0, blockNumber) ELSE <<>>,
                       [NoStep EXCEPT !.op = "getGuestBookings",
                                      !.task = Reconcile, !.ok = ok])
    /\ UNCHANGED <<blockNumber, isRunning, strapiBookings,
                   resumedAt, forgotten>>
    /\ UNCHANGED offListenerVars

\* handleBookingCreated / createBookingInStrapi up to the POST: the booking
\* is read from the ledger, findBookingByBlockchainId answers [] (its filter
\* returns false for every record), the property is found, and
\* findBookingsByPropertyId answers, [] when its request failed.  A booking
\* found on the property ends the call; a failed ledger read is caught.
findBooking(t, outcome) ==
    /\ tasks[t].pc = "find"
    /\ LET b == Head(tasks[t].queue)
           existingPropertyBookings ==
               IF outcome = "find failed" THEN {}
               ELSE findBookingsByPropertyId(propertyIdOf(b))
       IN  IF outcome = "ledger failed"
           THEN Finish(t, FALSE, "findBooking")
           ELSE IF existingPropertyBookings # {}
           THEN Finish(t, TRUE, "findBooking")
           ELSE /\ tasks' = [tasks EXCEPT ![t] = [@ EXCEPT !.pc = "post"]]
                /\ step' = [NoStep EXCEPT !.op = "findBooking", !.task = t,
                                          !.event = b]
                /\ UNCHANGED <<lastProcessedBlock, stateFile, processedEvents,
                               processingEvents>>
    /\ UNCHANGED <<blockNumber, isRunning, strapiBookings,
                   resumedAt, forgotten>>
    /\ UNCHANGED offListenerVars

\* `await axios.post(.../api/proeprty-bookings)` returns or throws.
postBooking(t, ok) ==
    /\ tasks[t].pc = "post"
    /\ LET b == Head(tasks[t].queue) IN
       /\ ok => strapiBookings[b] < MaxCopies
       /\ strapiBookings' =
              IF ok THEN [strapiBookings EXCEPT ![b] = @ + 1]
              ELSE strapiBookings
    /\ Finish(t, ok, "postBooking")
    /\ UNCHANGED <<blockNumber, isRunning, resumedAt, forgotten>>
    /\ UNCHANGED offListenerVars

\* POST /api/events/reset
resetIdempotencyTracking ==
    /\ isRunning
    /\ processedEvents' = {}
    /\ processingEvents' = {}
    /\ forgotten' = forgotten \cup processedEvents
    /\ tasks' = WithMarkers(tasks, {})
    /\ step' = NoStep
    /\ UNCHANGED <<blockNumber, lastProcessedBlock, stateFile, isRunning,
                   strapiBookings, resumedAt>>
    /\ UNCHANGED offListenerVars

ListenerNext ==
    \/ emitBookingCreated
    \/ initialize
    \/ \E t \in Polls : intervalTick(t)
    \/ \E t \in Polls \cup {Historical}, ok \in BOOLEAN : getBlockNumber(t, ok)
    \/ \E t \in TaskIds \ {Reconcile}, ok \in BOOLEAN : getAllEvents(t, ok)
    \/ \E from \in {DeploymentBlock + 1}, to \in {MaxBlocks} :
          processEventsRequest(from, to)
    \/ reconcileRequest
    \/ \E ok \in BOOLEAN : getGuestBookings(ok)
    \/ \E t \in TaskIds,
          outcome \in {"found", "find failed", "ledger failed"} :
          findBooking(t, outcome)
    \/ \E t \in TaskIds, ok \in BOOLEAN : postBooking(t, ok)
    \/ resetIdempotencyTracking

ListenerSpec == Init /\ [][ListenerNext]_vars

\* ---------------------------------------------------------------- C22
\* A handler execution that processEvent starts (step.started).
HandlerStarted == step.started # 0 /\ Kind(step.task) # "reconcile"

\* Events that processEvent returned from without running a handler.
SkippedAsProcessed ==
    {b \in step.skipped : eventId(b) \in processedEvents}

HandlerFailed == step.committed /\ ~step.ok

\* C23: when the handler for an event fails, its in-flight marker is
\* released and the event is not added to processedEvents, so that a later
\* poll applies it again.
C23_FailedNotCommitted ==
    HandlerFailed =>
        /\ eventId(step.event) \notin processingEvents
        /\ eventId(step.event) \notin processedEvents

\* ---------------------------------------------------------------- C24
\* A polling pass has just set lastProcessedBlock and saved it (step.failed:
\* the events of its batch whose handler's work failed).
CursorAdvanced == step.advanced

\* C24: lastProcessedBlock, in memory and in the state file, advances only
\* after every event of the batch has been applied successfully; it never
\* moves past the block of an event whose handler failed.
C24_AdvanceOnlyAfterSuccess ==
    CursorAdvanced =>
        \A b \in step.failed : lastProcessedBlock < b /\ stateFile < b

\* ---------------------------------------------------------------- C25
\* A polling pass whose event query has just failed.
QueryFailed ==
    /\ step.op = "getAllEvents"
    /\ ~step.ok
    /\ Kind(step.task) \in {"historical", "poll"}

\* C25: when the ledger is unreachable during a poll cycle the cycle ends
\* with no state mutation; in particular a failed event query does not
\* advance or persist the cursor.
C25_LedgerFailureAborts == QueryFailed => ~step.advanced

\* ---------------------------------------------------------------- C26
\* The passes that are between their head query and their cursor update.
PassesRunning ==
    {t \in Polls \cup {Historical} : tasks[t].pc # "idle"}

\* C26: at most one polling pass at a time is inside the fetch / apply /
\* advance sequence; a timer tick during an earlier pass or during the
\* historical catch-up starts no second pass.
C26_OnePassAtATime == Cardinality(PassesRunning) <= 1

\* ---------------------------------------------------------------- C27
\* The handler executions that processEvent has started for the event of
\* block b and that have not returned yet.
HandlersInProgress(b) ==
    {t \in TaskIds \ {Reconcile} :
        /\ tasks[t].pc \in {"find", "post"}
        /\ Head(tasks[t].queue) = b}

\* Those among them whose in-flight marker is still in processingEvents: it
\* has not been cleared by resetIdempotencyTracking, nor deleted by the
\* finally block of an execution that had lost its own marker that way.
MarkedHandlers(b) == {t \in HandlersInProgress(b) : ~tasks[t].unmarked}

\* C27 as stated: for any event identity at most one handler execution is
\* in progress at any time.
C27_OneHandlerPerEvent ==
    \A b \in EventBlocks : Cardinality(HandlersInProgress(b)) <= 1

\* C27: the check-and-insert of processEvent is atomic, so for any event
\* identity at most one handler execution holds the in-flight marker, and
\* the identity is in processingEvents exactly while one does; passes that
\* deliver the same event concurrently run its handler once.  Executions
\* that lost their marker after resetIdempotencyTracking are not counted.
C27_OneMarkedHandlerPerEvent ==
    \A b \in EventBlocks :
        /\ Cardinality(MarkedHandlers(b)) <= 1
        /\ eventId(b) \in processingEvents <=> MarkedHandlers(b) # {}

\* A poll and a manual request hold the same event: the poll runs its
\* handler, the request has skipped it as in flight.
C27_Witness ==
    /\ step.op = "getAllEvents"
    /\ step.task = Manual
    /\ \E b \in step.skipped, t \in Polls :
           /\ t \in MarkedHandlers(b)
           /\ eventId(b) \notin processedEvents

\* ---------------------------------------------------------------- C28
\* A createBookingInStrapi call that began when its booking had no record
\* has just written one.
FirstRecordPosted ==
    step.op = "postBooking" /\ step.ok /\ ~step.reapply

\* C28: reconcile running beside a poll is safe under every interleaving
\* of their awaits: each ledger booking ends with exactly one record, none
\* duplicated.
C28_ReconcileBesidePoll ==
    FirstRecordPosted => strapiBookings[step.event] = 1

\* ---------------------------------------------------------------- C29
\* processEvent runs its handler again for an event that was applied before
\* (its booking has a record) and whose identity was in processedEvents
\* when the set was lost (restart or resetIdempotencyTracking), and the
\* handler has just written a record.
ReappliedRecordPosted ==
    /\ step.op = "postBooking"
    /\ step.ok
    /\ step.reapply
    /\ Kind(step.task) # "reconcile"
    /\ eventId(step.event) \in forgotten

\* C29: after the in-memory processedEvents set is lost, re-delivery of
\* events that were already applied is harmless: the handler runs again but
\* writes no further record.
C29_ReapplicationHarmless == ~ReappliedRecordPosted

\* ---------------------------------------------------------------- C30
\* The polling passes of the running process.
PollingPasses == Polls \cup {Historical}

C30_WitnessNoCursor ==
    /\ resumedAt = MaxBlocks
    /\ forgotten = {}
    /\ tasks[Historical].pc = "idle"
    /\ step.op = "getAllEvents"
    /\ step.task = Historical
    /\ step.ok
    /\ \A b \in EventBlocks : strapiBookings[b] = 0

\* ---------------------------------------------------------------- C35
\* The statuses in which an EURC booking's payment is still held.
EscrowStatuses ==
    {"Active", "CheckInReady", "CheckedIn", "Disputed", "EscalatedToAdmin"}

HeldIn(bs, id) ==
    /\ bs[id].bookingId = id
    /\ ~bs[id].paidOffChain
    /\ bs[id].status \in EscrowStatuses

RECURSIVE HeldUpTo(_)
HeldUpTo(n) ==
    IF n = 0 THEN 0
    ELSE HeldUpTo(n - 1)
             + (IF HeldIn(bookings, n) THEN bookings[n].totalAmount ELSE 0)

\* What the latest transaction took out of the contract's balance.
PaidOut == preBalances[Escrow] - balances[Escrow]

\* C35: the contract's EURC balance always equals the sum of totalAmount
\* over the EURC bookings whose status is Active, CheckInReady, CheckedIn,
\* Disputed or EscalatedToAdmin; a booking's escrow is paid out at most once
\* (only as it leaves those statuses, to which it never returns), and what
\* is paid out for it adds up to exactly its totalAmount.
C35_EscrowMatchesBookings ==
    /\ balances[Escrow] = HeldUpTo(MaxBookings)
    /\ \A id \in BookingIds :
           (pre[id].bookingId = id /\ ~HeldIn(pre, id)) =>
               ~HeldIn(bookings, id)
    /\ PaidOut > 0 =>
           /\ tx.id \in BookingIds
           /\ HeldIn(pre, tx.id)
           /\ ~HeldIn(bookings, tx.id)
           /\ PaidOut = pre[tx.id].totalAmount
           /\ Received(Guest) + Received(Host) + Received(Treasury) = PaidOut

\* The admin splits the escrow of one EURC booking between guest, host and
\* treasury while the payment of another one stays held.
C35_Witness ==
    /\ tx.fn = "adminResolveDispute"
    /\ tx.pct = 33
    /\ PaidOut = 333
    /\ Received(Guest) > 0 /\ Received(Host) > 0 /\ Received(Treasury) > 0
    /\ balances[Escrow] = 333

\* ---------------------------------------------------------------- C36
InDispute(b) == b.status \in {"Disputed", "EscalatedToAdmin"}

\* C36: a booking whose status is Disputed or EscalatedToAdmin never has
\* both isResolvedByHost and isResolvedByGuest true, so escalateDispute is
\* never rejected with "Dispute already resolved".
C36_DisputeNeverBothResolved ==
    /\ \A id \in BookingIds :
           (Exists(id) /\ InDispute(bookings[id])) =>
               ~BothResolved(bookings[id])
    /\ \A id \in CallIds :
           escalateDisputeRevert(id) # "Dispute already resolved"

\* A dispute in which one party has voted is escalated after the deadline.
C36_Witness ==
    /\ tx.fn = "escalateDispute"
    /\ bookings[tx.id].status = "EscalatedToAdmin"
    /\ bookings[tx.id].isResolvedByHost # bookings[tx.id].isResolvedByGuest

\* ---------------------------------------------------------------- C37
\* Exactly one of two exits passes its checks.
ExactlyOne(a, b) == (a \/ b) /\ ~(a /\ b)

\* The two exits of booking id in its present status, each called by a
\* sender entitled to it.
CancelOpen(id) == cancelBookingRevert(bookings[id].guest, id) = ""
WindowOpen(id) == triggerCheckInWindowRevert(id) = ""
CheckInOpen(id) == checkInRevert(bookings[id].guest, id) = ""
MissedOpen(id) == processMissedCheckInRevert(id) = ""
ResolutionOpen(id) ==
    /\ hostResolveDisputeRevert(bookings[id].host, id) = ""
    /\ guestResolveDisputeRevert(bookings[id].guest, id) = ""
EscalationOpen(id) == escalateDisputeRevert(id) = ""

\* C37: a booking that is Active, CheckInReady or Disputed is never stuck
\* and its two time-guarded exits never overlap: at every time exactly one
\* is open - cancel (before checkInDate) or open-window (from checkInDate)
\* when Active; check-in (up to checkInDeadline) or missed check-in (after
\* it) when CheckInReady; resolution by the parties (up to disputeDeadline)
\* or escalation (after it) when Disputed.
C37_ExactlyOneTimedExit ==
    \A id \in BookingIds :
        Exists(id) =>
            LET b == bookings[id] IN
            /\ b.status = "Active" =>
                   /\ ExactlyOne(CancelOpen(id), WindowOpen(id))
                   /\ CancelOpen(id) <=> now < b.checkInDate
            /\ b.status = "CheckInReady" =>
                   /\ ExactlyOne(CheckInOpen(id), MissedOpen(id))
                   /\ CheckInOpen(id) <=> now <= b.checkInDeadline
            /\ b.status = "Disputed" =>
                   /\ ExactlyOne(ResolutionOpen(id), EscalationOpen(id))
                   /\ ResolutionOpen(id) <=> now <= b.disputeDeadline

\* The guest checks in at the last instant of the window, when the missed
\* check-in exit was still closed.
C37_Witness ==
    /\ tx.fn = "checkIn"
    /\ now = pre[tx.id].checkInDeadline
    /\ bookings[tx.id].status = "CheckedIn"

\* A dispute stands at its deadline: the parties can still resolve, nobody
\* can escalate.
C37_WitnessDispute ==
    \E id \in BookingIds :
        /\ bookings[id].status = "Disputed"
        /\ now = bookings[id].disputeDeadline
        /\ ResolutionOpen(id)

\* An Active booking at its check-in date: the window can be opened, the
\* guest can no longer cancel.
C37_WitnessActive ==
    \E id \in BookingIds :
        /\ bookings[id].status = "Active"
        /\ now = bookings[id].checkInDate
        /\ WindowOpen(id)

\* ---------------------------------------------------------------- C39
\* C39: lastProcessedBlock, in memory and in the state file, never
\* decreases, however the interval's polls and the historical catch-up
\* interleave: a pass that ends assigns a value at least as large as the
\* one it replaces (step.was).
C39_CursorMonotonic ==
    CursorAdvanced =>
        /\ lastProcessedBlock >= step.was
        /\ stateFile >= step.was

\* ---------------------------------------------------------------- C32
\* The events of step.rest (those that followed the event whose handler has
\* just returned in the batch).
Range(q) == {q[i] : i \in 1..Len(q)}

\* The pass goes on with the rest of the batch: every event in it is either
\* skipped because some delivery already holds or has applied it, or is the
\* one whose handler starts now, or waits in the pass's queue behind that.
BatchContinues ==
    /\ step.skipped \subseteq Range(step.rest)
    /\ \A b \in step.skipped :
           eventId(b) \in processedEvents \cup processingEvents
    /\ IF step.started = 0
       THEN Range(step.rest) = step.skipped
       ELSE /\ tasks[step.task].pc = "find"
            /\ Head(tasks[step.task].queue) = step.started
            /\ Range(step.rest) =
                   step.skipped \cup Range(tasks[step.task].queue)

\* C32: a handler failure for one event of a batch never keeps the other
\* events of the batch from being applied and marked processed: the loop
\* goes on with the next event, and an event whose handler returns is in
\* processedEvents.
C32_FailureDoesNotBlockBatch ==
    /\ HandlerFailed => BatchContinues
    /\ (step.committed /\ step.ok) =>
           eventId(step.event) \in processedEvents

\* In a batch of two events the handler of the first fails and the handler
\* of the second is started.
C32_Witness ==
    /\ HandlerFailed
    /\ step.event = DeploymentBlock + 1
    /\ step.started = DeploymentBlock + 2
    /\ step.rest = <<DeploymentBlock + 2>>

\* ... and the second is applied and marked processed although the first
\* failed.
C32_WitnessApplied ==
    /\ step.op = "postBooking"
    /\ step.ok
    /\ step.event = DeploymentBlock + 2
    /\ step.failed = {DeploymentBlock + 1}
    /\ eventId(step.event) \in processedEvents
    /\ strapiBookings[step.event] = 1

\* ============================================================ projection
\* The handlers of the booking events applied to the Strapi records of the
\* contract's bookings, every request answered.  A transaction is mined once
\* the events of the one before it have been applied.

\* getBookingStatusString: ledger status to Strapi status
getBookingStatusString(status) ==
    IF status = "CheckedIn" THEN "Active"
    ELSE IF status = "Completed" THEN "Complete"
    ELSE IF status \in {"Cancelled", "Refunded"} THEN "Cancelled"
    ELSE "Upcoming"

\* The event of the latest transaction that getEventHandler has a handler
\* for ("" when it emitted none): _completeBooking emits BookingCompleted
\* when a resolution completes the booking, adminResolveDispute emits it on
\* every outcome.
HandledEvent ==
    IF tx.fn = "createBooking" THEN "BookingCreated"
    ELSE IF tx.fn = "createBookingPaid" THEN "BookingCreatedPaid"
    ELSE IF tx.fn = "checkIn" THEN "CheckedIn"
    ELSE IF tx.fn \in {"hostResolveDispute", "guestResolveDispute"}
            /\ bookings[tx.id].status = "Completed"
         THEN "BookingCompleted"
    ELSE IF tx.fn = "adminResolveDispute" THEN "BookingCompleted"
    ELSE IF tx.fn = "cancelBooking" THEN "BookingCancelled"
    ELSE ""

\* findBookingByBlockchainId: its filter keeps no record
findBookingByBlockchainId(records, id) ==
    {i \in BookingIds : records[i] # "" /\ i = id /\ FALSE}

\* findBookingsByPropertyId over the records of the contract's bookings
existingPropertyBookings(records, p) ==
    {i \in BookingIds : records[i] # "" /\ bookings[i].propertyId = p}

\* createBookingInStrapi: nothing is posted when the booking or any booking
\* of its property has a record
createBookingInStrapi(records, id, status) ==
    IF findBookingByBlockchainId(records, id) # {} THEN records
    ELSE IF existingPropertyBookings(records, bookings[id].propertyId) # {}
         THEN records
    ELSE [records EXCEPT ![id] = status]

\* updateBookingInStrapi: puts the status into the record it found
updateBookingInStrapi(records, id, status) ==
    LET found == findBookingByBlockchainId(records, id) IN
    IF found = {} THEN records
    ELSE [i \in BookingIds |-> IF i \in found THEN status ELSE records[i]]

\* processEvent on the event of the latest transaction: handleBookingCreated
\* and handleBookingCreatedPaid, handleCheckedIn, handleBookingCompleted with
\* its payout callback, handleBookingCancelled.
processEvent ==
    /\ ~sync.applied
    /\ LET e == HandledEvent
           id == tx.id
       IN  /\ strapiRecords' =
                  IF e \in {"BookingCreated", "BookingCreatedPaid"}
                  THEN createBookingInStrapi(strapiRecords, id,
                           getBookingStatusString(bookings[id].status))
                  ELSE IF e = "CheckedIn"
                  THEN updateBookingInStrapi(strapiRecords, id, "Active")
                  ELSE IF e = "BookingCompleted"
                  THEN updateBookingInStrapi(strapiRecords, id, "Complete")
                  ELSE IF e = "BookingCancelled"
                  THEN updateBookingInStrapi(strapiRecords, id, "Cancelled")
                  ELSE strapiRecords
           /\ payoutCallbacks' =
                  IF e = "BookingCompleted" THEN payoutCallbacks \cup {id}
                  ELSE payoutCallbacks
    /\ sync' = [sync EXCEPT !.applied = TRUE]
    /\ UNCHANGED <<contractVars, listenerVars, paymentVars, orderVars>>

\* the bookings loop of reconcileChainToStrapi from position i on
RECURSIVE EnsureBookings(_, _, _)
EnsureBookings(records, ids, i) ==
    IF i > Len(ids) THEN records
    ELSE EnsureBookings(
             createBookingInStrapi(records, ids[i],
                 getBookingStatusString(bookings[ids[i]].status)),
             ids, i + 1)

\* reconcileChainToStrapi(userAddress)
reconcileChainToStrapi(userAddress) ==
    /\ sync.applied
    /\ sync.reconciled = ZeroAddress
    /\ strapiRecords' =
           EnsureBookings(strapiRecords, guestBookings[userAddress], 1)
    /\ sync' = [sync EXCEPT !.reconciled = userAddress]
    /\ UNCHANGED payoutCallbacks
    /\ UNCHANGED <<contractVars, listenerVars, paymentVars, orderVars>>

\* a transaction mined after the listener has caught up
ledgerStep == sync.applied /\ Next

SyncNext ==
    \/ ledgerStep
    \/ processEvent
    \/ \E a \in {Guest, Host} : reconcileChainToStrapi(a)

SyncSpec == Init /\ [][SyncNext]_vars

\* C38: onBookingCompleted is called only for bookings whose ledger status is
\* Completed, never for a booking an admin resolution left Refunded.
C38_PayoutOnlyForCompleted ==
    \A id \in payoutCallbacks : bookings[id].status = "Completed"

\* C34: once the CheckedIn, BookingCompleted or BookingCancelled event of a
\* booking that has a record is applied, the record's status is "Active",
\* "Complete" or "Cancelled" respectively.
C34_StatusFollowsEvent ==
    (sync.applied /\ tx.id \in BookingIds /\ strapiRecords[tx.id] # "")
    => /\ HandledEvent = "CheckedIn" => strapiRecords[tx.id] = "Active"
       /\ HandledEvent = "BookingCompleted"
              => strapiRecords[tx.id] = "Complete"
       /\ HandledEvent = "BookingCancelled"
              => strapiRecords[tx.id] = "Cancelled"

\* C33: after reconcile has run for a user, every booking the ledger lists
\* for that user has a record.
C33_ReconcileEnsuresRecords ==
    sync.reconciled # ZeroAddress
    => \A i \in 1..Len(guestBookings[sync.reconciled]) :
           strapiRecords[guestBookings[sync.reconciled][i]] # ""

\* ================================================================ payments
\* The CryptoPaymentService.  Every firing of the monitoring timer starts a
\* checkPendingPayments pass of its own; the passes interleave at their
\* awaits.  A pass keeps the instant it started at: late holds the sessions
\* past their expiry at that instant, old the ones created more than an hour
\* before it.
PaymentKeys == {"guest/P1"}

DoneCheck == [pc |-> "done", at |-> 0, late |-> {}, old |-> {}]

\* a write through a payment object the Map no longer holds is not seen
SetStatus(payments, p, status) ==
    IF payments[p].status = "" THEN payments
    ELSE [payments EXCEPT ![p].status = status]

\* the clean-up loop that ends checkPendingPayments
CleanUp(payments, old) ==
    [p \in PaymentIds |->
        IF p \in old /\ payments[p].status \in {"completed", "expired"}
        THEN NoPayment ELSE payments[p]]

\* processConfirmedPayment, once the confirmations are there: the marker is
\* set and the callback is called
Confirmed(payments, processing, calls, check) ==
    [payments |-> SetStatus(payments, check.at, "processing"),
     processing |-> processing \cup {check.at},
     calls |-> [calls EXCEPT ![check.at] = @ + 1],
     check |-> [check EXCEPT !.pc = "callback"]]

\* The loop of checkPendingPayments from session p on, up to the first await
\* or through the clean-up to the end of the pass.
RECURSIVE Pending(_, _, _, _, _)

\* processConfirmedPayment from its entry to its first await; when it
\* returns at once the caller's loop goes on with the next session
processConfirmedPayment(payments, processing, calls, check) ==
    IF payments[check.at].status = "" \/ check.at \in processing
    THEN Pending(payments, processing, calls, check, check.at + 1)
    ELSE IF payments[check.at].blockNumber
    THEN [payments |-> payments, processing |-> processing, calls |-> calls,
          check |-> [check EXCEPT !.pc = "confirmations"]]
    ELSE Confirmed(payments, processing, calls, check)

Pending(payments, processing, calls, check, p) ==
    IF p > MaxPayments
    THEN [payments |-> CleanUp(payments, check.old),
          processing |-> processing, calls |-> calls, check |-> DoneCheck]
    ELSE IF payments[p].status = "" \/ p \in processing
    THEN Pending(payments, processing, calls, check, p + 1)
    ELSE IF payments[p].status = "confirming"
    THEN processConfirmedPayment(payments, processing, calls,
                                 [check EXCEPT !.at = p])
    ELSE IF payments[p].status # "pending"
    THEN Pending(payments, processing, calls, check, p + 1)
    ELSE IF p \in check.late
    THEN Pending(SetStatus(payments, p, "expired"), processing, calls,
                 check, p + 1)
    ELSE [payments |-> payments, processing |-> processing, calls |-> calls,
          check |-> [check EXCEPT !.pc = "balanceOf", !.at = p]]

\* the pass i goes on as r says
Proceed(i, r) ==
    /\ pendingPayments' = r.payments
    /\ processingPayments' = r.processing
    /\ confirmedCalls' = r.calls
    /\ checks' = [checks EXCEPT ![i] = r.check]
    /\ UNCHANGED <<paymentIdCounter, isMonitoring>>
    /\ UNCHANGED <<contractVars, listenerVars, syncVars, orderVars>>

\* initializeEURCPayment: the user's pending sessions for the property are
\* cancelled, the new session is stored and, unless getNetwork or
\* getAddress throws, monitoring is started.
initializeEURCPayment(key, ok) ==
    /\ paymentIdCounter < MaxPayments
    /\ paymentIdCounter' = paymentIdCounter + 1
    /\ pendingPayments' =
           [p \in PaymentIds |->
               IF p = paymentIdCounter + 1
               THEN [status |-> "pending", blockNumber |-> FALSE,
                     key |-> key]
               ELSE IF pendingPayments[p].key = key
                       /\ pendingPayments[p].status = "pending"
               THEN [pendingPayments[p] EXCEPT !.status = "cancelled"]
               ELSE pendingPayments[p]]
    /\ isMonitoring' = (isMonitoring \/ ok)
    /\ UNCHANGED <<processingPayments, checks, confirmedCalls>>
    /\ UNCHANGED <<contractVars, listenerVars, syncVars, orderVars>>

\* cancelPayment
cancelPayment(p) ==
    /\ pendingPayments[p].status = "pending"
    /\ pendingPayments' = SetStatus(pendingPayments, p, "cancelled")
    /\ UNCHANGED <<processingPayments, paymentIdCounter, isMonitoring,
                   checks, confirmedCalls>>
    /\ UNCHANGED <<contractVars, listenerVars, syncVars, orderVars>>

\* stopMonitoring: the timer is cleared, the passes in flight go on
stopMonitoring ==
    /\ isMonitoring
    /\ isMonitoring' = FALSE
    /\ UNCHANGED <<pendingPayments, processingPayments, paymentIdCounter,
                   checks, confirmedCalls>>
    /\ UNCHANGED <<contractVars, listenerVars, syncVars, orderVars>>

\* the interval of startMonitoring fires: checkPendingPayments
checkPendingPayments(i, late, old) ==
    /\ isMonitoring
    /\ checks[i].pc = "waiting"
    /\ Proceed(i, Pending(pendingPayments, processingPayments,
                          confirmedCalls,
                          [pc |-> "loop", at |-> 0, late |-> late,
                           old |-> old], 1))

\* checkEURCPayment: eurcToken.balanceOf answers
balanceOf(i, ok, enough) ==
    /\ checks[i].pc = "balanceOf"
    /\ LET check == checks[i] IN
       IF ok /\ enough
       THEN Proceed(i, [payments |-> SetStatus(pendingPayments, check.at,
                                              "confirming"),
                       processing |-> processingPayments,
                       calls |-> confirmedCalls,
                       check |-> [check EXCEPT !.pc = "blockNumber"]])
       ELSE Proceed(i, Pending(pendingPayments, processingPayments,
                               confirmedCalls, check, check.at + 1))

\* checkEURCPayment: provider.getBlockNumber answers and
\* processConfirmedPayment is entered
paymentBlockNumber(i, ok) ==
    /\ checks[i].pc = "blockNumber"
    /\ LET check == checks[i] IN
       IF ok
       THEN Proceed(i, processConfirmedPayment(
                [pendingPayments EXCEPT ![check.at] =
                    IF @.status = "" THEN @
                    ELSE [@ EXCEPT !.blockNumber = TRUE]],
                processingPayments, confirmedCalls, check))
       ELSE Proceed(i, Pending(pendingPayments, processingPayments,
                               confirmedCalls, check, check.at + 1))

\* processConfirmedPayment: provider.getBlockNumber answers; the finally
\* block deletes the marker on every way out
confirmations(i, ok, enough) ==
    /\ checks[i].pc = "confirmations"
    /\ LET check == checks[i] IN
       IF ok /\ enough
       THEN Proceed(i, Confirmed(pendingPayments, processingPayments,
                                confirmedCalls, check))
       ELSE Proceed(i, Pending(
                IF ok THEN pendingPayments
                ELSE SetStatus(pendingPayments, check.at, "failed"),
                processingPayments \ {check.at}, confirmedCalls, check,
                check.at + 1))

\* processConfirmedPayment: the callback returns or throws
onEURCPaymentConfirmed(i, success) ==
    /\ checks[i].pc = "callback"
    /\ LET check == checks[i] IN
       Proceed(i, Pending(
           SetStatus(pendingPayments, check.at,
                     IF success THEN "completed" ELSE "failed"),
           processingPayments \ {check.at}, confirmedCalls, check,
           check.at + 1))

PaymentNext ==
    \/ \E key \in PaymentKeys, ok \in BOOLEAN :
          initializeEURCPayment(key, ok)
    \/ \E p \in PaymentIds : cancelPayment(p)
    \/ stopMonitoring
    \/ \E i \in CheckIds, late \in SUBSET PaymentIds :
          \E old \in SUBSET late : checkPendingPayments(i, late, old)
    \/ \E i \in CheckIds, ok \in BOOLEAN, enough \in BOOLEAN :
          balanceOf(i, ok, enough)
    \/ \E i \in CheckIds, ok \in BOOLEAN : paymentBlockNumber(i, ok)
    \/ \E i \in CheckIds, ok \in BOOLEAN, enough \in BOOLEAN :
          confirmations(i, ok, enough)
    \/ \E i \in CheckIds, success \in BOOLEAN :
          onEURCPaymentConfirmed(i, success)

PaymentSpec == Init /\ [][PaymentNext]_vars

\* C40: for each payment session, onEURCPaymentConfirmed is called at most
\* once, however the monitoring passes interleave.
C40_CallbackAtMostOnce ==
    \A p \in PaymentIds : confirmedCalls[p] <= 1

\* ================================================================== order
\* One poll cycle over the blocks 1..MaxHeight with both contracts emitting.
\* An event is the contract that emitted it and its place in the ledger.
\* queryFilter hands back what eth_getLogs answers: the logs of one contract
\* in ledger order.
Contracts == {"propertyMarketplace", "bookingManager"}

EventsOf(c) ==
    [contract : {c}, blockNumber : 1..MaxHeight,
     transactionIndex : 0..MaxTxIndex]

\* a is not after b in the ledger
NotAfter(a, b) ==
    \/ a.blockNumber < b.blockNumber
    \/ /\ a.blockNumber = b.blockNumber
       /\ a.transactionIndex <= b.transactionIndex

\* what a queryFilter call on contract c can answer
QueryResults(c) ==
    {q \in UNION {[1..n -> EventsOf(c)] : n \in 0..MaxFetched} :
        \A i \in 1..Len(q), j \in 1..Len(q) :
            i < j => NotAfter(q[i], q[j])}

\* a comparator that looks at the block only
compareBlockNumber(a, b) == a.blockNumber - b.blockNumber

\* the comparator of getAllEvents
compare(a, b) ==
    IF a.blockNumber # b.blockNumber
    THEN a.blockNumber - b.blockNumber
    ELSE a.transactionIndex - b.transactionIndex

\* Array.prototype.sort with that comparator (stable): e goes behind the
\* elements that do not compare greater
Insert(s, e) ==
    LET k == Cardinality({i \in 1..Len(s) : compare(s[i], e) <= 0})
    IN  SubSeq(s, 1, k) \o <<e>> \o SubSeq(s, k + 1, Len(s))

RECURSIVE sort(_)
sort(s) ==
    IF s = <<>> THEN <<>>
    ELSE Insert(sort(SubSeq(s, 1, Len(s) - 1)), s[Len(s)])

\* getAllEvents: the PropertyMarketplace events, then the BookingManager
\* events, then the sort; a query that throws ends the try block and what
\* was pushed so far is returned.  thrown is 0 when both queries answer.
getAllEventsResult(propertyEvents, bookingEvents, thrown) ==
    IF thrown = 1 THEN <<>>
    ELSE IF thrown = 2 THEN propertyEvents
    ELSE sort(propertyEvents \o bookingEvents)

\* processNewBlocks up to its loop
pollCycle(propertyEvents, bookingEvents, thrown) ==
    /\ events = <<>>
    /\ fetched' = propertyEvents \o bookingEvents
    /\ events' = getAllEventsResult(propertyEvents, bookingEvents, thrown)
    /\ invoked' = <<>>
    /\ UNCHANGED <<contractVars, listenerVars, syncVars, paymentVars>>

\* one turn of the loop: processEvent on the next event, which invokes the
\* handler unless the event is skipped (seen before, or without a handler)
applyEvent(skipped) ==
    /\ events # <<>>
    /\ invoked' = IF skipped THEN invoked ELSE Append(invoked, Head(events))
    /\ events' = Tail(events)
    /\ UNCHANGED fetched
    /\ UNCHANGED <<contractVars, listenerVars, syncVars, paymentVars>>

OrderNext ==
    \/ \E propertyEvents \in QueryResults("propertyMarketplace"),
          bookingEvents \in QueryResults("bookingManager"),
          thrown \in 0..2 :
          pollCycle(propertyEvents, bookingEvents, thrown)
    \/ \E skipped \in BOOLEAN : applyEvent(skipped)

OrderSpec == Init /\ [][OrderNext]_vars

\* C31: within one poll cycle the handlers are invoked in ascending
\* (blockNumber, transactionIndex) order, and no event still to be applied
\* precedes one already handled, whichever contract emitted the events and
\* however the two query results were put together.
C31_AppliedInLedgerOrder ==
    /\ \A i \in 1..Len(invoked), j \in 1..Len(invoked) :
           i < j => NotAfter(invoked[i], invoked[j])
    /\ \A i \in 1..Len(invoked), j \in 1..Len(events) :
           NotAfter(invoked[i], events[j])

\* A cycle whose fetched array began with a PropertyMarketplace event of a
\* later block than a BookingManager event behind it, and that has handled
\* every event, the BookingManager event first.
C31_Witness ==
    /\ events = <<>>
    /\ Len(invoked) = Len(fetched)
    /\ Len(fetched) >= 2
    /\ fetched[1].contract = "propertyMarketplace"
    /\ fetched[Len(fetched)].contract = "bookingManager"
    /\ fetched[1].blockNumber > fetched[Len(fetched)].blockNumber
    /\ invoked[1].contract = "bookingManager"

\* The same with two events of one block: the transaction index decides.
C31_WitnessSameBlock ==
    /\ events = <<>>
    /\ Len(invoked) = Len(fetched)
    /\ Len(fetched) >= 2
    /\ fetched[1].blockNumber = fetched[Len(fetched)].blockNumber
    /\ fetched[1].transactionIndex > fetched[Len(fetched)].transactionIndex
    /\ invoked[1] = fetched[Len(fetched)]

====
